---- MODULE Spec2Model ----
(***************************************************************************)
(* Verification model of tpchgen-rs: the row-oriented random number        *)
(* generators, the partitioned table generators and the parallel parquet   *)
(* writer.                                                                 *)
(***************************************************************************)
EXTENDS Integers, Sequences, FiniteSets, TLC

VARIABLES
    \* ---- one 32-bit row RNG object (TpchRng / AbstractRandomInt)
    impl,       \* which implementation the object is
    seed,       \* field seed
    usage,      \* field usage
    expected,   \* field expected_usage_per_row
    rpc,        \* position: "ready", "advance_seed" or "panicked"
    count,      \* advance_seed: local count
    multiplier, \* advance_seed: local multiplier
    cont,       \* what the caller of advance_seed does when it returns
    ret,        \* value returned by the last next_int
    g,          \* history of the current call, kept for the properties
    \* ---- two 64-bit row RNG objects (TpchLongRng / RandomLong)
    limpl,      \* which implementation and build the objects are
    lexpected,  \* field expected_usage_per_row of both
    lrng,       \* the objects: "seq" generates rows one after another,
                \* "par" is the generator of a partition
    \* ---- two runs of the ORDERS / LINEITEM generators (textgen.rs)
    gcfg,       \* what both runs share: order count, part count, use_64bits, build
    gen,        \* the runs "a" and "b": table, part, position, RNGs, output
    \* ---- one call of generate_parquet (parquet.rs)
    pcfg,       \* its arguments: num_threads and the row groups of each iterator
    pq,         \* the stream, the channel, the sending loop and the writer task
    \* ---- the shared default TextPool and the threads asking for it
    tp,         \* the once-only guard, the stored pool, each caller's position
    \* ---- one value generator (phone number, alphanumeric, text, ...)
    vg,         \* its RNG, the draws its next_value still has to make, counters
    \* ---- one call of a helper function of the table generators
    fc          \* the function, its arguments and, once it has run, its result

rngVars == <<impl, seed, usage, expected, rpc, count, multiplier, cont, ret, g>>

longVars == <<limpl, lexpected, lrng>>

genVars == <<gcfg, gen>>

pqVars == <<pcfg, pq>>

poolVars == <<tp>>

valVars == <<vg>>

callVars == <<fc>>

vars == <<rngVars, longVars, genVars, pqVars, poolVars, valVars, callVars>>

\* what the actions of one part of the model leave alone
notRng == <<longVars, genVars, pqVars, poolVars, valVars, callVars>>
notLong == <<rngVars, genVars, pqVars, poolVars, valVars, callVars>>
notGen == <<rngVars, longVars, pqVars, poolVars, valVars, callVars>>
notPq == <<rngVars, longVars, genVars, poolVars, valVars, callVars>>
notPool == <<rngVars, longVars, genVars, pqVars, valVars, callVars>>
notVal == <<rngVars, longVars, genVars, pqVars, poolVars, callVars>>
notCall == <<rngVars, longVars, genVars, pqVars, poolVars, valVars>>

----------------------------------------------------------------------------
(* Bounds of the model *)

\* largest expected_usage_per_row an RNG is constructed with
MaxUsage == 3
\* largest row_count passed to advance_rows
MaxRows == 3
\* number of calls made on one RNG object
MaxCalls == 3

----------------------------------------------------------------------------
(* The i64 arithmetic of the 32-bit generator.  All operands are below     *)
(* 2^31, so the i64 products of the source never overflow; they are        *)
(* computed here in 11-bit limbs, every intermediate value below 2^31.     *)

MULTIPLIER == 16807
MODULUS == 2147483647

\* (a + b) % MODULUS for 0 <= a, b < MODULUS
AddMod(a, b) == IF a >= MODULUS - b THEN a - (MODULUS - b) ELSE a + b

\* (t * 2^e) % MODULUS for 0 <= t < MODULUS and 0 < e < 31: as 2^31 is
\* congruent to 1, the multiplication rotates the 31 bits of t
ShiftMod(t, e) == (t \div 2^(31 - e)) + (t % 2^(31 - e)) * 2^e

\* (t * 2^e) % 2^31 for 0 < e < 31
ShiftLow(t, e) == (t % 2^(31 - e)) * 2^e

\* (a + b) % 2^31 for 0 <= a, b < 2^31
AddLow(a, b) == IF a > MODULUS - b THEN (a - (MODULUS - b)) - 1 ELSE a + b

\* the 11-bit limbs of a < 2^31, least significant first
Limbs(a) == <<a % 2048, (a \div 2048) % 2048, a \div 4194304>>

\* the sum of the limb products of weight 2^(11 * k) in a * b
LimbSum(x, y, k) ==
    CASE k = 0 -> x[1] * y[1]
      [] k = 1 -> x[1] * y[2] + x[2] * y[1]
      [] k = 2 -> x[1] * y[3] + x[2] * y[2] + x[3] * y[1]
      [] k = 3 -> x[2] * y[3] + x[3] * y[2]
      [] OTHER -> x[3] * y[3]

\* quotient and remainder of the i64 product a * b by MODULUS, for
\* 0 <= a, b < 2^31.  The remainder adds the limb products with 2^31 = 1;
\* the quotient q < 2^31 satisfies a * b = q * 2^31 - q + r, so it is
\* (r - a * b) mod 2^31.
MulDivMod(a, b) ==
    LET x   == Limbs(a)
        y   == Limbs(b)
        r   == AddMod(AddMod(AddMod(LimbSum(x, y, 0),
                                    ShiftMod(LimbSum(x, y, 1), 11)),
                             AddMod(ShiftMod(LimbSum(x, y, 2), 22),
                                    ShiftMod(LimbSum(x, y, 3), 2))),
                      ShiftMod(LimbSum(x, y, 4), 13))
        low == AddLow(AddLow(LimbSum(x, y, 0),
                             ShiftLow(LimbSum(x, y, 1), 11)),
                      ShiftLow(LimbSum(x, y, 2), 22))
    IN  [q |-> IF r >= low THEN r - low ELSE (r + (MODULUS - low)) + 1,
         r |-> r]

\* (a * b) % MODULUS
MulMod(a, b) == MulDivMod(a, b).r

\* (a step that keeps the quotient of the division by the modulus)
NextRandQuotient(s) == MulDivMod(s, MULTIPLIER).q

\* one step of the generator: seed <- (seed * 16807) mod (2^31 - 1)
NextRand(s) == MulMod(s, MULTIPLIER)

\* the seed reached from s by n single steps
RECURSIVE StepN(_, _)
StepN(s, n) == IF n <= 0 THEN s ELSE StepN(NextRand(s), n - 1)

\* value_in_range of next_int: ((seed / MODULUS) * range) truncated to an
\* integer.  For 1 <= range <= 2^20 the f64 quotient and product are within
\* 2^-32 of the exact value, whose distance to the next integer is at least
\* 1 / MODULUS, so the truncation is the exact floor of seed * range / MODULUS.
ValueInRange(s, lo, hi) == MulDivMod(s, hi - lo + 1).q

\* hi - lo + 1 does not fit an i32 (for 0 <= lo <= hi): the range of
\* next_int(0, i32::MAX), which rng.rs and a release build of textgen.rs wrap
\* to -2^31
RangeOverflows(lo, hi) == hi - lo = 2147483647

\* what next_int(lo, hi) does after next_rand has left the seed s.  With the
\* range -2^31 the product (s / MODULUS) * range is -(s + s / MODULUS) up to
\* the rounding of the quotient (at most 2^-23 after the scaling), which
\* cannot reach the next integer unless s is within 1024 of MODULUS.  AbstractRandomInt adds 1 in i32, which
\* aborts in a build with overflow checks
NextIntOutcomes(i, s, lo, hi) ==
    IF ~RangeOverflows(lo, hi)
    THEN {[aborted |-> FALSE, ret |-> lo + ValueInRange(s, lo, hi)]}
    ELSE {[aborted |-> FALSE, ret |-> lo - m]
            : m \in IF MODULUS - s > 1024 THEN {s} ELSE {s, s + 1}}
         \cup (IF i = "AbstractRandomInt"
               THEN {[aborted |-> TRUE, ret |-> 0]} ELSE {})

----------------------------------------------------------------------------
(* The i64 arithmetic of the 64-bit generator.  An i64 is the tuple of the *)
(* eight bytes of its two's-complement form, least significant first.      *)

\* the i64 of an integer 0 <= n < 2^31
ToI64(n) ==
    <<n % 256, (n \div 256) % 256, (n \div 65536) % 256, n \div 16777216,
      0, 0, 0, 0>>

\* the element of a one-element set: Only({F(v) : v \in {e}}) is F(e) with e
\* evaluated once
Only(S) == CHOOSE v \in S : TRUE

RECURSIVE SeqSum(_)
SeqSum(s) == IF s = <<>> THEN 0 ELSE Head(s) + SeqSum(Tail(s))

\* the sum of the byte products of weight 256^(k - 1) in x * y
Column(x, y, k) ==
    SeqSum([i \in 1..Len(x) |->
               IF k + 1 - i \in 1..Len(y) THEN x[i] * y[k + 1 - i] ELSE 0])

\* the bytes of a number given by column sums, from column k on with carry c;
\* the carry out of the last column is dropped
RECURSIVE Carry(_, _, _)
Carry(cols, k, c) ==
    IF k > Len(cols) THEN <<>>
    ELSE Only({<<t % 256>> \o Carry(cols, k + 1, t \div 256) : t \in {cols[k] + c}})

\* i64::wrapping_mul, i64::wrapping_add, i64::wrapping_neg
WrappingMul(x, y) ==
    Only({Carry(cols, 1, 0) : cols \in {[k \in 1..8 |-> Column(x, y, k)]}})
WrappingAdd(x, y) ==
    Only({Carry(cols, 1, 0) : cols \in {[k \in 1..8 |-> x[k] + y[k]]}})
WrappingNeg(x) ==
    Only({WrappingAdd(n, ToI64(1)) : n \in {[k \in 1..8 |-> 255 - x[k]]}})

\* the 16 bytes of the product of two unsigned 64-bit numbers
FullMul(x, y) ==
    Only({Carry(cols, 1, 0) : cols \in {[k \in 1..16 |-> Column(x, y, k)]}})

IsNegative(x) == x[8] >= 128

\* |x| as an unsigned 64-bit number (2^63 for i64::MIN)
Magnitude(x) == IF IsNegative(x) THEN WrappingNeg(x) ELSE x

\* the exact product x * y does not fit an i64
MulOverflows(x, y) ==
    \E mx \in {Magnitude(x)}, my \in {Magnitude(y)} :
    \E p \in {FullMul(mx, my)} :
        \/ \E k \in 9..16 : p[k] # 0
        \/ /\ p[8] >= 128
           /\ ~( /\ IsNegative(x) # IsNegative(y)
                 /\ p[8] = 128 /\ \A k \in 1..7 : p[k] = 0 )

\* the exact sum x + y does not fit an i64
AddOverflows(x, y) ==
    /\ IsNegative(x) = IsNegative(y)
    /\ IsNegative(WrappingAdd(x, y)) # IsNegative(x)

\* x is i64::MIN
IsMin(x) == x[8] = 128 /\ \A k \in 1..7 : x[k] = 0

\* u % MODULUS for an unsigned 64-bit u, folding the bytes from byte k down
RECURSIVE FoldMod(_, _, _)
FoldMod(u, k, r) ==
    IF k = 0 THEN r
    ELSE Only({FoldMod(u, k - 1, r1) : r1 \in {AddMod(ShiftMod(r, 8), u[k])}})

\* u % m for an unsigned 64-bit u and 1 <= m <= 2^22
RECURSIVE FoldRem(_, _, _, _)
FoldRem(u, m, k, r) ==
    IF k = 0 THEN r
    ELSE Only({FoldRem(u, m, k - 1, r1) : r1 \in {(r * 256 + u[k]) % m}})

\* x % MODULUS on i64: the remainder takes the sign of x
RemModulus(x) ==
    Only({IF IsNegative(x) THEN WrappingNeg(ToI64(r)) ELSE ToI64(r) :
            r \in {FoldMod(u, 8, 0) : u \in {Magnitude(x)}}})

\* |x| % m on i64 for non-negative x and for i64::MIN, 1 <= m <= 2^22
RemSmall(x, m) == Only({FoldRem(u, m, 8, 0) : u \in {Magnitude(x)}})

----------------------------------------------------------------------------
(* The 32-bit row RNG as an object: TpchRng (rng.rs) and                   *)
(* AbstractRandomInt (textgen.rs) differ only in the check next_rand makes *)
(* of the usage counter.                                                   *)

Impls == {"AbstractRandomInt", "TpchRng_debug", "TpchRng_release"}

\* seeds the generators are constructed with
Seeds == {1, 1066728069, 1434868289, 2147483646}

\* (low, high) pairs next_int is called with
IntRanges == {<<1, 7>>, <<0, 24>>, <<0, 2147483647>>}

\* next_rand refuses the draw
UsageExceeded(i, u, e) ==
    CASE i = "AbstractRandomInt" -> u >= e
      [] i = "TpchRng_debug"     -> ~(u <= e)
      [] OTHER                   -> FALSE

\* (a row_finished that forgets the draws already made)
ShortfallIgnoringUsage(e, u) == e

\* the count row_finished passes to advance_seed
Shortfall(e, u) == e - u

\* (an advance_rows that forgets the per-row budget)
RowsCountIgnoringUsage(e, n) == n

\* the count advance_rows passes to advance_seed
RowsCount(e, n) == e * n

\* the state of the RNG objects a specification does not use
RngIdle ==
    /\ impl = "none" /\ seed = 0 /\ usage = 0 /\ expected = 0 /\ rpc = "idle"
    /\ count = 0 /\ multiplier = 0 /\ cont = "none" /\ ret = 0 /\ g = <<>>

LongIdle == limpl = "none" /\ lexpected = 0 /\ lrng = <<>>

GenIdle == gcfg = <<>> /\ gen = <<>>

PqIdle == pcfg = <<>> /\ pq = <<>>

PoolIdle == tp = <<>>

ValIdle == vg = <<>>

CallIdle == fc = <<>>

RngInit ==
    /\ impl \in Impls
    /\ seed \in Seeds
    /\ expected \in 1..MaxUsage
    /\ usage = 0
    /\ rpc = "ready"
    /\ count = 0
    /\ multiplier = MULTIPLIER
    /\ cont = "none"
    /\ ret = 0
    /\ g = [calls |-> 0, op |-> "new", arg |-> 0, usage0 |-> 0,
            rowStart |-> seed, prevRowStart |-> seed]

Called(op, arg) ==
    [g EXCEPT !.calls = @ + 1, !.op = op, !.arg = arg, !.usage0 = usage]

\* next_int(low_value, high_value), with the next_rand it calls
NextInt(lo, hi) ==
    /\ rpc = "ready"
    /\ g.calls < MaxCalls
    /\ g' = Called("next_int", 0)
    /\ IF UsageExceeded(impl, usage, expected)
       THEN /\ rpc' = "panicked"
            /\ UNCHANGED <<seed, usage, ret>>
       ELSE /\ seed' = NextRand(seed)
            /\ usage' = usage + 1
            /\ \E o \in NextIntOutcomes(impl, NextRand(seed), lo, hi) :
                  /\ ret' = IF o.aborted THEN ret ELSE o.ret
                  /\ rpc' = IF o.aborted THEN "panicked" ELSE rpc
    /\ UNCHANGED <<impl, expected, count, multiplier, cont>>
    /\ UNCHANGED notRng

\* row_finished(): enters advance_seed(expected_usage_per_row - usage)
RowFinished ==
    /\ rpc = "ready"
    /\ g.calls < MaxCalls
    /\ g' = Called("row_finished", 0)
    /\ count' = Shortfall(expected, usage)
    /\ multiplier' = MULTIPLIER
    /\ cont' = "row_finished"
    /\ rpc' = "advance_seed"
    /\ UNCHANGED <<impl, seed, usage, expected, ret>>
    /\ UNCHANGED notRng

\* advance_rows(row_count): finishes the current row first when it has draws
AdvanceRows(n) ==
    /\ rpc = "ready"
    /\ g.calls < MaxCalls
    /\ g' = Called("advance_rows", n)
    /\ IF usage # 0
       THEN /\ count' = Shortfall(expected, usage)
            /\ cont' = "advance_rows_row_finished"
       ELSE /\ count' = RowsCount(expected, n)
            /\ cont' = "advance_rows"
    /\ multiplier' = MULTIPLIER
    /\ rpc' = "advance_seed"
    /\ UNCHANGED <<impl, seed, usage, expected, ret>>
    /\ UNCHANGED notRng

\* one iteration of the while loop of advance_seed
AdvanceSeedLoop ==
    /\ rpc = "advance_seed"
    /\ count > 0
    /\ seed' = IF count % 2 # 0 THEN MulMod(multiplier, seed) ELSE seed
    /\ count' = count \div 2
    /\ multiplier' = MulMod(multiplier, multiplier)
    /\ UNCHANGED <<impl, usage, expected, rpc, cont, ret, g>>
    /\ UNCHANGED notRng

\* the loop of advance_seed ends and its caller goes on
AdvanceSeedReturn ==
    /\ rpc = "advance_seed"
    /\ ~(count > 0)
    /\ CASE cont = "row_finished" ->
              /\ usage' = 0
              /\ rpc' = "ready"
              /\ g' = [g EXCEPT !.prevRowStart = g.rowStart, !.rowStart = seed]
              /\ UNCHANGED <<count, multiplier, cont>>
         [] cont = "advance_rows_row_finished" ->
              /\ usage' = 0
              /\ count' = RowsCount(expected, g.arg)
              /\ multiplier' = MULTIPLIER
              /\ cont' = "advance_rows"
              /\ UNCHANGED <<rpc, g>>
         [] OTHER ->
              /\ rpc' = "ready"
              /\ g' = [g EXCEPT !.prevRowStart = g.rowStart, !.rowStart = seed]
              /\ UNCHANGED <<usage, count, multiplier, cont>>
    /\ UNCHANGED <<impl, seed, expected, ret>>
    /\ UNCHANGED notRng

RngNext ==
    \/ \E r \in IntRanges : NextInt(r[1], r[2])
    \/ RowFinished
    \/ \E n \in 0..MaxRows : AdvanceRows(n)
    \/ AdvanceSeedLoop
    \/ AdvanceSeedReturn

SpecRngInit == RngInit /\ LongIdle /\ GenIdle /\ PqIdle /\ PoolIdle /\ ValIdle /\ CallIdle

SpecRng == SpecRngInit /\ [][RngNext]_vars

\* C2: after row_finished() the seed is the seed at the start of the row
\* advanced by exactly expected_usage_per_row single steps, and usage is 0,
\* however many draws (0..expected_usage_per_row) the row made.
C2_RowFinishedSeed ==
    (rpc = "ready" /\ g.op = "row_finished" /\ g.usage0 <= expected)
        => /\ usage = 0
           /\ seed = StepN(g.prevRowStart, expected)

\* a row that made one draw of a budget of three has been finished
C2_Witness ==
    /\ rpc = "ready"
    /\ g.op = "row_finished"
    /\ g.usage0 = 1
    /\ expected = 3
    /\ seed # g.prevRowStart

\* C3: advance_rows(n) called at the start of a row leaves the seed reached
\* by n * expected_usage_per_row single steps, and every iteration of the
\* loop of advance_seed strictly decreases a count that stays >= 0, so the
\* loop terminates.
C3_AdvanceRowsSeed ==
    /\ [](((rpc = "ready" /\ g.op = "advance_rows" /\ g.usage0 = 0)
            => seed = StepN(g.prevRowStart, g.arg * expected)))
    /\ [][(rpc = "advance_seed" /\ count > 0)
            => (rpc' = "advance_seed" /\ count' >= 0 /\ count' < count)]_vars

\* advance_rows(3) was called at the start of a row with a budget of 2
C3_Witness ==
    /\ rpc = "ready"
    /\ g.op = "advance_rows"
    /\ g.usage0 = 0
    /\ g.arg = 3
    /\ expected = 2
    /\ seed = StepN(g.prevRowStart, 6)

----------------------------------------------------------------------------
(* The 64-bit row RNG: TpchLongRng (rng.rs) and RandomLong (textgen.rs).   *)
(* RandomLong steps with wrapping_mul / wrapping_add and checks the usage  *)
(* counter; TpchLongRng steps with * and +, which abort on overflow in a   *)
(* debug build and wrap in a release build.  Both fast-forward with the    *)
(* 32-bit multiplier and modulus.                                          *)

\* 6364136223846793005 = 0x5851F42D4C957F2D
LONG_MULTIPLIER == <<45, 127, 149, 76, 45, 244, 81, 88>>
INCREMENT == 1
MULTIPLIER_32 == 16807

LongImpls == [type : {"RandomLong", "TpchLongRng"}, build : {"debug", "release"}]

\* seeds of the customer key and part key generators
LongSeeds == {851767375, 1808217256}

\* -4654452103859546277, the seed that next_rand takes to i64::MIN
SEED_BEFORE_MIN == <<91, 215, 97, 205, 120, 16, 104, 191>>

\* the seeds a generator is constructed with, as i64
LongSeedsI64 == {ToI64(s) : s \in LongSeeds} \cup {SEED_BEFORE_MIN}

\* (low, high) pairs next_long is called with
LongRanges == {<<1, 150000>>}

Panicked(o) == [o EXCEPT !.status = "panicked"]

\* next_rand
LongNextRand(i, e, o) ==
    IF i.type = "RandomLong" /\ o.usage >= e
    THEN Panicked(o)
    ELSE Only({ IF /\ i.type = "TpchLongRng" /\ i.build = "debug"
                   /\ (MulOverflows(o.seed, LONG_MULTIPLIER)
                         \/ AddOverflows(p, ToI64(INCREMENT)))
                THEN Panicked(o)
                ELSE [o EXCEPT !.seed = WrappingAdd(p, ToI64(INCREMENT)),
                               !.usage = @ + 1]
              : p \in {WrappingMul(o.seed, LONG_MULTIPLIER)} })

\* next_long(low, high): seed.abs() aborts on i64::MIN in a debug build and
\* returns i64::MIN in a release build, whose remainder is negative
LongNextLong(i, e, o, lo, hi) ==
    Only({ IF o1.status = "panicked" THEN o1
           ELSE IF IsMin(o1.seed) /\ i.build = "debug" THEN Panicked(o1)
           ELSE Only({ [o1 EXCEPT !.ret = lo + (IF IsMin(o1.seed) THEN 0 - r ELSE r)]
                     : r \in {RemSmall(o1.seed, hi - lo + 1)} })
         : o1 \in {LongNextRand(i, e, o)} })

\* advance_seed32(count) / advance_seed_32(count) from local multiplier m:
\* the seed reached, and whether the loop ran without an overflow abort
RECURSIVE AdvanceSeed32(_, _, _, _)
AdvanceSeed32(i, s, c, m) ==
    IF ~(c > 0) THEN [seed |-> s, ok |-> TRUE]
    ELSE IF c % 2 # 0
    THEN Only({ IF i.build = "debug" /\ MulOverflows(mi, s)
                THEN [seed |-> s, ok |-> FALSE]
                ELSE Only({ AdvanceSeed32(i, s1, c \div 2, m1)
                          : s1 \in {RemModulus(p) : p \in {WrappingMul(mi, s)}},
                            m1 \in {MulMod(m, m)} })
              : mi \in {ToI64(m)} })
    ELSE Only({AdvanceSeed32(i, s, c \div 2, m1) : m1 \in {MulMod(m, m)}})

\* row_finished
LongRowFinished(i, e, o) ==
    Only({ IF a.ok THEN [o EXCEPT !.seed = a.seed, !.usage = 0, !.rows = @ + 1]
           ELSE Panicked(o)
         : a \in {AdvanceSeed32(i, o.seed, Shortfall(e, o.usage), MULTIPLIER_32)} })

\* advance_rows(row_count)
LongAdvanceRows(i, e, o, n) ==
    Only({ IF o1.status = "panicked" THEN o1
           ELSE Only({ IF a.ok THEN [o1 EXCEPT !.seed = a.seed, !.start = n]
                       ELSE Panicked(o1)
                     : a \in {AdvanceSeed32(i, o1.seed, RowsCount(e, n),
                                            MULTIPLIER_32)} })
         : o1 \in {IF o.usage # 0 THEN LongRowFinished(i, e, o) ELSE o} })

\* new(seed, expected_usage_per_row), for both objects
LongInit ==
    /\ limpl \in LongImpls
    /\ lexpected \in 1..MaxUsage
    /\ \E s \in LongSeedsI64 :
          lrng = [o \in {"seq", "par"} |->
                     [seed |-> s, usage |-> 0, status |-> "ready",
                      rows |-> 0, start |-> -1, ret |-> 0]]

\* the sequential generator draws a value of the current row
LNextLong(lo, hi) ==
    /\ lrng["seq"].status = "ready"
    /\ lrng["seq"].rows < MaxRows
    /\ lrng["seq"].usage <= lexpected
    /\ lrng' = [lrng EXCEPT !["seq"] = LongNextLong(limpl, lexpected, @, lo, hi)]
    /\ UNCHANGED <<limpl, lexpected>>
    /\ UNCHANGED notLong

\* the sequential generator ends the current row
LRowFinished ==
    /\ lrng["seq"].status = "ready"
    /\ lrng["seq"].rows < MaxRows
    /\ lrng' = [lrng EXCEPT !["seq"] = LongRowFinished(limpl, lexpected, @)]
    /\ UNCHANGED <<limpl, lexpected>>
    /\ UNCHANGED notLong

\* the generator of a partition is fast-forwarded to its first row
LAdvanceRows(n) ==
    /\ lrng["par"].status = "ready"
    /\ lrng["par"].start = -1
    /\ lrng' = [lrng EXCEPT !["par"] = LongAdvanceRows(limpl, lexpected, @, n)]
    /\ UNCHANGED <<limpl, lexpected>>
    /\ UNCHANGED notLong

LongNext ==
    \/ \E r \in LongRanges : LNextLong(r[1], r[2])
    \/ LRowFinished
    \/ \E n \in 0..MaxRows : LAdvanceRows(n)

SpecLongInit == LongInit /\ RngIdle /\ GenIdle /\ PqIdle /\ PoolIdle /\ ValIdle /\ CallIdle

SpecLong == SpecLongInit /\ [][LongNext]_vars

\* C4: the generator of a partition, fast-forwarded by advance_rows(n), holds
\* the seed the sequential generator holds after n rows, at the start of
\* row n + 1.
C4_PartitionSeed ==
    ( /\ lrng["par"].status = "ready" /\ lrng["par"].start >= 0
      /\ lrng["seq"].status = "ready" /\ lrng["seq"].usage = 0
      /\ lrng["seq"].rows = lrng["par"].start )
        => lrng["par"].seed = lrng["seq"].seed

----------------------------------------------------------------------------
(* The column generators of textgen.rs as values: RandomInt over           *)
(* AbstractRandomInt, and RandomBoundedLong, which holds a RandomLong when *)
(* use_64bits is set and a RandomInt otherwise.                            *)

\* RandomInt::new(seed, expected) / RandomLong::new(seed, expected)
NewColumn(s, e, long) ==
    [long |-> long, seed |-> IF long THEN ToI64(s) ELSE s, usage |-> 0,
     expected |-> e, status |-> "ready", rows |-> 0, start |-> -1, ret |-> 0]

\* AbstractRandomInt::advance_seed(count) from local multiplier m
RECURSIVE AdvanceSeed(_, _, _)
AdvanceSeed(s, c, m) ==
    IF ~(c > 0) THEN s
    ELSE Only({ AdvanceSeed(s1, c \div 2, m1)
              : s1 \in {IF c % 2 # 0 THEN MulMod(m, s) ELSE s},
                m1 \in {MulMod(m, m)} })

\* AbstractRandomInt::next_int(lo, hi); a draw whose range is not known to
\* the model (raw) is kept as the seed it is computed from
IntNextInt(o, lo, hi, raw) ==
    IF UsageExceeded("AbstractRandomInt", o.usage, o.expected)
    THEN Panicked(o)
    ELSE Only({ [o EXCEPT !.seed = s1, !.usage = @ + 1,
                          !.ret = IF raw THEN s1 ELSE lo + ValueInRange(s1, lo, hi)]
              : s1 \in {NextRand(o.seed)} })

\* AbstractRandomInt::row_finished
IntRowFinished(o) ==
    [o EXCEPT !.seed = AdvanceSeed(o.seed, Shortfall(o.expected, o.usage), MULTIPLIER),
              !.usage = 0, !.rows = @ + 1]

\* AbstractRandomInt::advance_rows(row_count)
IntAdvanceRows(o, n) ==
    Only({ [o1 EXCEPT !.seed = AdvanceSeed(o1.seed, RowsCount(o1.expected, n),
                                           MULTIPLIER),
                      !.start = n]
         : o1 \in {IF o.usage # 0 THEN IntRowFinished(o) ELSE o} })

\* the RandomLong of a build
RandomLongOf(build) == [type |-> "RandomLong", build |-> build]

\* next_value, row_finished and advance_rows of a column generator
ColNext(build, o, lo, hi, raw) ==
    IF o.long THEN LongNextLong(RandomLongOf(build), o.expected, o, lo, hi)
    ELSE IntNextInt(o, lo, hi, raw)

ColRowFinished(build, o) ==
    IF o.long THEN LongRowFinished(RandomLongOf(build), o.expected, o)
    ELSE IntRowFinished(o)

ColAdvanceRows(build, o, n) ==
    IF o.long THEN LongAdvanceRows(RandomLongOf(build), o.expected, o, n)
    ELSE IntAdvanceRows(o, n)

\* the draws ds[k], ds[k + 1], ... made one after another on the generators
\* rngs: the generators afterwards, the values drawn, and whether no draw
\* aborted
RECURSIVE DrawAll(_, _, _, _, _)
DrawAll(build, rngs, ds, k, vals) ==
    IF k > Len(ds) THEN [rngs |-> rngs, vals |-> vals, ok |-> TRUE]
    ELSE Only({ IF o1.status = "panicked"
                THEN [rngs |-> [rngs EXCEPT ![ds[k].col] = o1], vals |-> vals,
                      ok |-> FALSE]
                ELSE Only({ DrawAll(build, r1, ds, k + 1, v1)
                          : r1 \in {[rngs EXCEPT ![ds[k].col] = o1]},
                            v1 \in {Append(vals, o1.ret)} })
              : o1 \in {ColNext(build, rngs[ds[k].col], ds[k].lo, ds[k].hi,
                                ds[k].raw)} })

Draw(col, lo, hi) == [col |-> col, lo |-> lo, hi |-> hi, raw |-> FALSE]
RawDraw(col) == [col |-> col, lo |-> 0, hi |-> 0, raw |-> TRUE]

\* row_finished on the generators cols of a table, advance_rows(n) on all
AllRowFinished(build, rngs, cols) ==
    [col \in DOMAIN rngs |->
        IF col \in cols THEN ColRowFinished(build, rngs[col]) ELSE rngs[col]]

AllAdvanceRows(build, rngs, n) ==
    [col \in DOMAIN rngs |-> ColAdvanceRows(build, rngs[col], n)]

AnyPanicked(rngs) == \E col \in DOMAIN rngs : rngs[col].status = "panicked"

----------------------------------------------------------------------------
(* The ORDERS and LINEITEM generators of textgen.rs.  The tables are       *)
(* generated at model size: the order count floor(SCALE_BASE * SF) is      *)
(* drawn from 0 .. MaxOrders, the key ranges are those of ScaleFactor, and *)
(* use_64bits, which the code sets for SF >= 30000, is drawn as well.      *)

\* largest order count of a run
MaxOrders == 3
\* largest part_count of a run
MaxParts == 3

ScaleFactor == 1
SupplierGenerator_SCALE_BASE == 10000
PartGenerator_SCALE_BASE == 200000
CustomerGenerator_SCALE_BASE == 150000
SUPPLIERS_PER_PART == 4
CUSTOMER_MORTALITY == 3
CLERK_SCALE_BASE == 1000
ORDER_DATE_MIN == 92001
ORDER_DATE_MAX == 97996
LINE_COUNT_MIN == 1
LINE_COUNT_MAX == 7
ORDER_KEY_SPARSE_BITS == 2
ORDER_KEY_SPARSE_KEEP == 3
QUANTITY_MIN == 1
QUANTITY_MAX == 50
TAX_MIN == 0
TAX_MAX == 8
DISCOUNT_MIN == 0
DISCOUNT_MAX == 10
PART_KEY_MIN == 1
SHIP_DATE_MIN == 1
SHIP_DATE_MAX == 121
COMMIT_DATE_MIN == 30
COMMIT_DATE_MAX == 90
RECEIPT_DATE_MIN == 1
RECEIPT_DATE_MAX == 30
CURRENT_DATE == 95168
OrderGenerator_COMMENT_AVERAGE_LENGTH == 49
LineItemGenerator_COMMENT_AVERAGE_LENGTH == 27

\* start_index() and row_count() of a generator whose table has total_count
\* rows; GenerateUtils::calculate_start_index / calculate_row_count are the same
start_index(total_count, part, part_count) ==
    (total_count \div part_count) * (part - 1)

\* (a row_count that forgets the remainder of the last part)
row_count_without_remainder(total_count, part, part_count) ==
    total_count \div part_count

row_count(total_count, part, part_count) ==
    IF part = part_count
    THEN (total_count \div part_count) + (total_count % part_count)
    ELSE total_count \div part_count

\* (an order key without the gap of ORDER_KEY_SPARSE_BITS bits)
make_order_key_without_gap(order_index) ==
    (order_index \div 2^ORDER_KEY_SPARSE_KEEP) * 2^ORDER_KEY_SPARSE_KEEP
    + (order_index % 2^ORDER_KEY_SPARSE_KEEP)

\* OrderGenerator::make_order_key
make_order_key(order_index) ==
    ((order_index \div 2^ORDER_KEY_SPARSE_KEEP) * 2^ORDER_KEY_SPARSE_BITS)
        * 2^ORDER_KEY_SPARSE_KEEP
    + (order_index % 2^ORDER_KEY_SPARSE_KEEP)

\* calculate_part_price, in cents
calculate_part_price(part_key) ==
    90000 + ((part_key \div 10) % 20001) + (part_key % 1000) * 100

\* (a supplier choice that counts the suppliers from 0)
SupplierOfPartFromZero(part_key, supplier_number, supplier_count) ==
    (part_key
        + supplier_number * (supplier_count \div SUPPLIERS_PER_PART
                               + (part_key - 1) \div supplier_count))
       % supplier_count

\* select_part_supplier for a scale factor that gives supplier_count suppliers
SupplierOfPart(part_key, supplier_number, supplier_count) ==
    ((part_key
        + supplier_number * (supplier_count \div SUPPLIERS_PER_PART
                               + (part_key - 1) \div supplier_count))
       % supplier_count) + 1

\* PartSuppGenerator::select_part_supplier at the scale factor of the model
select_part_supplier(part_key, supplier_number) ==
    SupplierOfPart(part_key, supplier_number,
                   SupplierGenerator_SCALE_BASE * ScaleFactor)

\* epoch_date_to_string: the same text for every date
epoch_date_to_string(epoch_date) == "1995-01-01"

\* (a mortality step that does not clamp the key)
MortalityStepUnclamped(customer_key, delta, max_customer_key) ==
    customer_key + delta

\* one pass of the customer mortality loop: the new customer_key
MortalityStep(customer_key, delta, max_customer_key) ==
    IF customer_key + delta > max_customer_key
    THEN max_customer_key ELSE customer_key + delta

\* the while loop of OrderGenerator::generate that steps a customer key off
\* the multiples of CUSTOMER_MORTALITY
RECURSIVE MortalityLoop(_, _, _)
MortalityLoop(customer_key, delta, max_customer_key) ==
    IF customer_key % CUSTOMER_MORTALITY # 0 THEN customer_key
    ELSE MortalityLoop(MortalityStep(customer_key, delta, max_customer_key),
                       0 - delta, max_customer_key)

\* min_length and max_length of RandomText: 0.4 and 1.6 times the average
MinLength(average_length) == (average_length * 4) \div 10
MaxLength(average_length) == (average_length * 16) \div 10

max_customer_key == CustomerGenerator_SCALE_BASE * ScaleFactor
max_part_key == PartGenerator_SCALE_BASE * ScaleFactor
clerk_max ==
    IF ScaleFactor * CLERK_SCALE_BASE < CLERK_SCALE_BASE
    THEN CLERK_SCALE_BASE ELSE ScaleFactor * CLERK_SCALE_BASE

\* OrderGenerator::create_order_date_random / create_line_count_random, which
\* LineItemGenerator::generate calls as well
create_order_date_random == NewColumn(1066728069, 1, FALSE)
create_line_count_random == NewColumn(1434868289, 1, FALSE)

\* the random generators OrderGenerator::generate constructs
OrderColumns(use_64bits) ==
    [order_date     |-> create_order_date_random,
     line_count     |-> create_line_count_random,
     customer_key   |-> NewColumn(851767375, 1, use_64bits),
     order_priority |-> NewColumn(591449447, 1, FALSE),
     clerk          |-> NewColumn(1171034773, 1, FALSE),
     comment        |-> NewColumn(276090261, 2, FALSE)]

\* the random generators LineItemGenerator::generate constructs
LineItemColumns(use_64bits) ==
    [order_date        |-> create_order_date_random,
     line_count        |-> create_line_count_random,
     quantity          |-> NewColumn(209208115, LINE_COUNT_MAX, FALSE),
     discount          |-> NewColumn(554590007, LINE_COUNT_MAX, FALSE),
     tax               |-> NewColumn(721958466, LINE_COUNT_MAX, FALSE),
     part_key          |-> NewColumn(1808217256, LINE_COUNT_MAX, use_64bits),
     supplier_number   |-> NewColumn(2095021727, LINE_COUNT_MAX, FALSE),
     ship_date         |-> NewColumn(1769349045, LINE_COUNT_MAX, FALSE),
     commit_date       |-> NewColumn(904914315, LINE_COUNT_MAX, FALSE),
     receipt_date      |-> NewColumn(373135028, LINE_COUNT_MAX, FALSE),
     return_flag       |-> NewColumn(717419739, LINE_COUNT_MAX, FALSE),
     ship_instructions |-> NewColumn(1371272478, LINE_COUNT_MAX, FALSE),
     ship_mode         |-> NewColumn(675466456, LINE_COUNT_MAX, FALSE),
     comment           |-> NewColumn(1095462486, LINE_COUNT_MAX * 2, FALSE)]

\* (an ORDERS loop that finishes only the generators it drew from)
orders_row_finished_drawn ==
    {"order_date", "customer_key", "order_priority", "clerk", "comment"}

\* the generators OrderGenerator::generate calls row_finished on after a row
orders_row_finished ==
    {"order_date", "line_count", "customer_key", "order_priority", "clerk",
     "comment"}

\* the draws of one ORDERS row, in the order generate makes them: a weighted
\* string takes one draw, a text an offset and a length
OrderDraws ==
    <<Draw("order_date", ORDER_DATE_MIN, ORDER_DATE_MAX),
      Draw("customer_key", 1, max_customer_key),
      RawDraw("order_priority"),
      Draw("clerk", 1, clerk_max),
      RawDraw("comment"),
      Draw("comment", MinLength(OrderGenerator_COMMENT_AVERAGE_LENGTH),
                      MaxLength(OrderGenerator_COMMENT_AVERAGE_LENGTH))>>

\* the draws LINEITEM makes once per order, and those of one line
LineItemOrderDraws ==
    <<Draw("order_date", ORDER_DATE_MIN, ORDER_DATE_MAX),
      Draw("line_count", LINE_COUNT_MIN, LINE_COUNT_MAX)>>

LineDraws ==
    <<Draw("quantity", QUANTITY_MIN, QUANTITY_MAX),
      Draw("discount", DISCOUNT_MIN, DISCOUNT_MAX),
      Draw("tax", TAX_MIN, TAX_MAX),
      Draw("part_key", PART_KEY_MIN, max_part_key),
      Draw("supplier_number", 0, 3),
      Draw("ship_date", SHIP_DATE_MIN, SHIP_DATE_MAX),
      Draw("commit_date", COMMIT_DATE_MIN, COMMIT_DATE_MAX),
      Draw("receipt_date", RECEIPT_DATE_MIN, RECEIPT_DATE_MAX),
      RawDraw("ship_instructions"),
      RawDraw("ship_mode"),
      RawDraw("comment"),
      Draw("comment", MinLength(LineItemGenerator_COMMENT_AVERAGE_LENGTH),
                      MaxLength(LineItemGenerator_COMMENT_AVERAGE_LENGTH))>>

\* the Order pushed for the draws v of a row
OrderRow(order_index, v) ==
    [o_orderkey      |-> make_order_key(order_index),
     o_custkey       |-> MortalityLoop(v[2], 1, max_customer_key),
     o_orderstatus   |-> "O",
     o_totalprice    |-> 0,
     o_orderdate     |-> epoch_date_to_string(v[1]),
     o_orderpriority |-> v[3],
     o_clerk         |-> v[4],
     o_shippriority  |-> 0,
     o_comment       |-> <<v[5], v[6]>>]

\* the LineItem pushed for the draws v of line line_number (from 0) of an order
LineItemRow(order_key, order_date, line_number, v) ==
    LET ship_date    == order_date + v[6]
        commit_date  == order_date + v[7]
        receipt_date == ship_date + v[8]
    IN  [l_orderkey      |-> order_key,
         l_partkey       |-> v[4],
         l_suppkey       |-> select_part_supplier(v[4], v[5]),
         l_linenumber    |-> line_number + 1,
         l_quantity      |-> v[1],
         l_extendedprice |-> calculate_part_price(v[4]) * v[1],
         l_discount      |-> v[2],
         l_tax           |-> v[3],
         l_returnflag    |-> IF receipt_date <= CURRENT_DATE THEN "R" ELSE "N",
         l_linestatus    |-> IF ship_date > CURRENT_DATE THEN "O" ELSE "F",
         l_shipdate      |-> epoch_date_to_string(ship_date),
         l_commitdate    |-> epoch_date_to_string(commit_date),
         l_receiptdate   |-> epoch_date_to_string(receipt_date),
         l_shipinstruct  |-> v[9],
         l_shipmode      |-> v[10],
         l_comment       |-> <<v[11], v[12]>>,
         \* kept for the properties: the locals ship_date, commit_date and
         \* receipt_date the three date fields are formatted from
         dates           |-> <<ship_date, commit_date, receipt_date>>]

\* the generators LineItemGenerator::generate calls row_finished on after the
\* lines of an order
lineitem_row_finished ==
    {"order_date", "line_count", "quantity", "discount", "tax", "part_key",
     "supplier_number", "ship_date", "commit_date", "receipt_date",
     "return_flag", "ship_instructions", "ship_mode", "comment"}

\* the body of the for loop of OrderGenerator::generate for one order: the
\* generators afterwards, the rows pushed, and whether it ran to its end
OrderLoopBody(build, rngs, order_index) ==
    Only({ IF ~d.ok THEN [rngs |-> d.rngs, rows |-> <<>>, ok |-> FALSE]
           ELSE Only({ [rngs |-> r1, rows |-> <<OrderRow(order_index, d.vals)>>,
                        ok |-> ~AnyPanicked(r1), order_date |-> d.vals[1]]
                     : r1 \in {AllRowFinished(build, d.rngs, orders_row_finished)} })
         : d \in {DrawAll(build, rngs, OrderDraws, 1, <<>>)} })

\* the inner loop of LineItemGenerator::generate from line line_number on
RECURSIVE LineLoop(_, _, _, _, _, _, _)
LineLoop(build, rngs, order_key, order_date, line_count, line_number, rows) ==
    IF line_number >= line_count
    THEN [rngs |-> rngs, rows |-> rows, ok |-> TRUE]
    ELSE Only({ IF ~d.ok THEN [rngs |-> d.rngs, rows |-> rows, ok |-> FALSE]
                ELSE Only({ LineLoop(build, d.rngs, order_key, order_date,
                                     line_count, line_number + 1, rows1)
                          : rows1 \in {Append(rows,
                                LineItemRow(order_key, order_date, line_number,
                                            d.vals))} })
              : d \in {DrawAll(build, rngs, LineDraws, 1, <<>>)} })

\* the body of the outer for loop of LineItemGenerator::generate for one order
LineItemLoopBody(build, rngs, order_index) ==
    Only({ IF ~d.ok THEN [rngs |-> d.rngs, rows |-> <<>>, ok |-> FALSE]
           ELSE Only({ IF ~l.ok THEN l
                       ELSE Only({ [rngs |-> r1, rows |-> l.rows,
                                    ok |-> ~AnyPanicked(r1),
                                    order_date |-> d.vals[1],
                                    line_count |-> d.vals[2]]
                                 : r1 \in {AllRowFinished(build, l.rngs,
                                                lineitem_row_finished)} })
                     : l \in {LineLoop(build, d.rngs, make_order_key(order_index),
                                       d.vals[1], d.vals[2], 0, <<>>)} })
         : d \in {DrawAll(build, rngs, LineItemOrderDraws, 1, <<>>)} })

----------------------------------------------------------------------------
(* Runs of the generators.  Two runs, "a" and "b", go side by side: in a   *)
(* partition scenario a generates a table as part 1 of 1 and b generates   *)
(* parts 1 .. K of K one after the other, appending their rows; in the     *)
(* join scenario a is OrderGenerator and b LineItemGenerator on the same   *)
(* part.                                                                   *)

Runs == {"a", "b"}
Scenarios == {"partition_orders", "partition_lineitem", "join"}
Builds == {"debug", "release"}

\* XGenerator::new(scale_factor, part, part_count), to be run for the parts
\* part .. last_part
NewGenerator(table, part, part_count, last_part) ==
    [table |-> table, part |-> part, part_count |-> part_count,
     last_part |-> last_part, pc |-> "new", index |-> 0, start_index |-> 0,
     row_count |-> 0, rngs |-> <<>>, out |-> <<>>, log |-> <<>>,
     ranges |-> <<>>]

TableOf(scenario) ==
    IF scenario = "partition_orders" THEN "orders" ELSE "lineitem"

GenInit ==
    \E scenario \in Scenarios, n \in 0..MaxOrders, k \in 1..MaxParts,
       use_64bits \in BOOLEAN, build \in Builds :
      \E p \in 1..k :
        /\ gcfg = [scenario |-> scenario, orders |-> n, use_64bits |-> use_64bits,
                   build |-> build]
        /\ gen = IF scenario = "join"
                 THEN [x \in Runs |->
                         NewGenerator(IF x = "a" THEN "orders" ELSE "lineitem",
                                      p, k, p)]
                 ELSE [x \in Runs |->
                         IF x = "a" THEN NewGenerator(TableOf(scenario), 1, 1, 1)
                         ELSE NewGenerator(TableOf(scenario), 1, k, k)]

\* generate() up to its for loop: start_index, row_count, the generators
\* constructed and advanced to start_index
GenStart(x) ==
    /\ gen[x].pc = "new"
    /\ \E si \in {start_index(gcfg.orders, gen[x].part, gen[x].part_count)},
          rc \in {row_count(gcfg.orders, gen[x].part, gen[x].part_count)} :
         \E r \in {AllAdvanceRows(gcfg.build,
                      IF gen[x].table = "orders"
                      THEN OrderColumns(gcfg.use_64bits)
                      ELSE LineItemColumns(gcfg.use_64bits), si)} :
           gen' = [gen EXCEPT ![x] =
                     [@ EXCEPT !.start_index = si, !.row_count = rc, !.rngs = r,
                               !.index = 0,
                               !.pc = IF AnyPanicked(r) THEN "panicked" ELSE "rows",
                               !.ranges = Append(@, <<si, rc>>)]]
    /\ UNCHANGED gcfg
    /\ UNCHANGED notGen

\* one iteration of the for loop over the orders of the part
GenRow(x) ==
    /\ gen[x].pc = "rows"
    /\ gen[x].index < gen[x].row_count
    /\ \E order_index \in {gen[x].start_index + gen[x].index + 1} :
         \E b \in {IF gen[x].table = "orders"
                   THEN OrderLoopBody(gcfg.build, gen[x].rngs, order_index)
                   ELSE LineItemLoopBody(gcfg.build, gen[x].rngs, order_index)} :
           gen' = [gen EXCEPT ![x] =
                     [@ EXCEPT !.rngs = b.rngs,
                               !.index = @ + 1,
                               !.out = IF b.ok THEN @ \o b.rows ELSE @,
                               !.pc = IF b.ok THEN "rows" ELSE "panicked",
                               !.log = IF b.ok
                                       THEN Append(@,
                                         [order_index |-> order_index,
                                          order_date_seed |->
                                              gen[x].rngs.order_date.seed,
                                          line_count_seed |->
                                              gen[x].rngs.line_count.seed,
                                          order_date |-> b.order_date,
                                          line_count |->
                                              IF gen[x].table = "orders" THEN 0
                                              ELSE b.line_count])
                                       ELSE @]]
    /\ UNCHANGED gcfg
    /\ UNCHANGED notGen

\* the for loop is over and generate returns its rows
GenReturn(x) ==
    /\ gen[x].pc = "rows"
    /\ gen[x].index >= gen[x].row_count
    /\ gen' = [gen EXCEPT ![x].pc = "returned"]
    /\ UNCHANGED gcfg
    /\ UNCHANGED notGen

\* the caller goes on to the generator of the next part
NextPart(x) ==
    /\ gen[x].pc = "returned"
    /\ gen[x].part < gen[x].last_part
    /\ gen' = [gen EXCEPT ![x].pc = "new", ![x].part = @ + 1]
    /\ UNCHANGED gcfg
    /\ UNCHANGED notGen

GenNext ==
    \E x \in Runs :
        \/ GenStart(x)
        \/ GenRow(x)
        \/ GenReturn(x)
        \/ NextPart(x)

SpecGenInit == GenInit /\ RngIdle /\ LongIdle /\ PqIdle /\ PoolIdle /\ ValIdle /\ CallIdle

SpecGen == SpecGenInit /\ [][GenNext]_vars

\* a run has generated all its parts
Finished(x) == gen[x].pc = "returned" /\ gen[x].part = gen[x].last_part

\* C1: when a table has been generated both as part 1 of 1 and as parts
\* 1 .. K of K, the rows of the parts, concatenated in order, are exactly the
\* rows of the single run.
C1_PartitionConcat ==
    ( /\ gcfg.scenario \in {"partition_orders", "partition_lineitem"}
      /\ Finished("a") /\ Finished("b") )
        => gen["b"].out = gen["a"].out

\* C5: the row ranges of the parts 1 .. K follow one another from row 1 on
\* without gap or overlap, and the range of part K ends at row N.
C5_PartitionRanges ==
    gcfg.scenario # "join" =>
        LET r == gen["b"].ranges
        IN  /\ \A p \in 1..Len(r) :
                 /\ r[p][2] >= 0
                 /\ r[p][1] = IF p = 1 THEN 0 ELSE r[p - 1][1] + r[p - 1][2]
            /\ Len(r) = gen["b"].part_count
                 => r[Len(r)][1] + r[Len(r)][2] = gcfg.orders

\* all parts of a table whose row count the part count does not divide have
\* been laid out
C5_Witness ==
    /\ gcfg.scenario # "join"
    /\ gen["b"].part_count = 2
    /\ gcfg.orders = 3
    /\ gen["b"].ranges = <<(<<0, 1>>), (<<1, 2>>)>>

\* the first three LINEITEM rows of the crate documentation, without the
\* fields drawn from distributions and the text pool; money in cents, discount
\* and tax in hundredths
ReferenceLineItems ==
    << [l_orderkey |-> 1, l_partkey |-> 155190, l_suppkey |-> 7706,
        l_linenumber |-> 1, l_quantity |-> 17, l_extendedprice |-> 2116823,
        l_discount |-> 4, l_tax |-> 2, l_returnflag |-> "N",
        l_linestatus |-> "O", l_shipdate |-> "1996-03-13",
        l_commitdate |-> "1996-02-12", l_receiptdate |-> "1996-03-22"],
       [l_orderkey |-> 1, l_partkey |-> 67310, l_suppkey |-> 7311,
        l_linenumber |-> 2, l_quantity |-> 36, l_extendedprice |-> 4598316,
        l_discount |-> 9, l_tax |-> 6, l_returnflag |-> "N",
        l_linestatus |-> "O", l_shipdate |-> "1996-04-12",
        l_commitdate |-> "1996-02-28", l_receiptdate |-> "1996-04-20"],
       [l_orderkey |-> 1, l_partkey |-> 63700, l_suppkey |-> 3701,
        l_linenumber |-> 3, l_quantity |-> 8, l_extendedprice |-> 1330960,
        l_discount |-> 10, l_tax |-> 2, l_returnflag |-> "N",
        l_linestatus |-> "O", l_shipdate |-> "1996-01-29",
        l_commitdate |-> "1996-03-05", l_receiptdate |-> "1996-01-31"] >>

\* C6: the first three rows of LINEITEM generated as part 1 of 1 with the key
\* ranges of SF = 1 carry the keys, quantities, prices, rates, flags and dates
\* of the three reference lines.
C6_FirstLineItems ==
    ( /\ gcfg.scenario = "partition_lineitem"
      /\ ~gcfg.use_64bits
      /\ Len(gen["a"].out) >= 3 )
        => \A k \in 1..3 :
              [f \in DOMAIN ReferenceLineItems[k] |-> gen["a"].out[k][f]]
                  = ReferenceLineItems[k]

\* C7: on the same part, OrderGenerator and LineItemGenerator start their k-th
\* order with the same order index, the same order-date seed and the same
\* line-count seed; they draw the same order date, and the line count
\* LINEITEM draws is the one the line-count seed of ORDERS yields.
C7_SameOrderSeeds ==
    gcfg.scenario = "join" =>
        \A k \in 1..Len(gen["a"].log) :
            k <= Len(gen["b"].log) =>
                LET o == gen["a"].log[k]
                    l == gen["b"].log[k]
                IN  /\ o.order_index = l.order_index
                    /\ o.order_date_seed = l.order_date_seed
                    /\ o.line_count_seed = l.line_count_seed
                    /\ o.order_date = l.order_date
                    /\ l.line_count =
                         LINE_COUNT_MIN
                           + ValueInRange(NextRand(o.line_count_seed),
                                          LINE_COUNT_MIN, LINE_COUNT_MAX)

\* both generators have generated two orders of a part that does not start at
\* the first row, the first of them with several lines
C7_Witness ==
    /\ gcfg.scenario = "join"
    /\ gen["a"].start_index > 0
    /\ Len(gen["a"].log) = 2
    /\ Len(gen["b"].log) = 2
    /\ gen["b"].log[1].line_count # gen["b"].log[2].line_count

----------------------------------------------------------------------------
(* generate_parquet of parquet.rs: a stream that encodes the row groups of *)
(* up to num_threads input iterators at a time on spawned tasks and yields *)
(* them in input order, a sending loop that passes each result to a        *)
(* bounded channel, and a blocking writer task that receives from the      *)
(* channel and writes to the sink.                                         *)

\* largest num_threads of a call
MaxThreads == 2
\* largest number of input iterators of a call
MaxItems == 5
\* largest number of row groups one iterator is encoded into
MaxGroups == 2

\* (a stream that holds one future more)
BufferedOneMore(num_threads) == num_threads + 1

\* .buffered(num_threads): the number of encoding futures held at a time
Buffered(num_threads) == num_threads

\* tokio::sync::mpsc::channel(num_threads): the capacity of the channel
ChannelCapacity(num_threads) == num_threads

\* (a stream that yields whichever result is ready, as buffer_unordered does)
ReadyIndexUnordered(q) ==
    IF \E i \in 1..Len(q) : q[i].st = "encoded"
    THEN CHOOSE i \in 1..Len(q) :
            /\ q[i].st = "encoded"
            /\ \A j \in 1..Len(q) : q[j].st = "encoded" => j <= i
    ELSE 0

\* the position in the queue of the result the buffered stream yields next,
\* 0 when it is pending: results come in the order the futures were pushed
ReadyIndex(q) ==
    IF q # <<>> /\ q[1].st = "encoded" THEN 1 ELSE 0

\* (a send that does not notice the closed channel)
SendResultIgnoringClosed(rx_open, len, capacity) ==
    IF len < capacity THEN "ok" ELSE "pending"

\* tx.send(chunks).await: an error when the receiver is gone, otherwise
\* completed once the channel has room
SendResult(rx_open, len, capacity) ==
    IF ~rx_open THEN "err"
    ELSE IF len < capacity THEN "ok" ELSE "pending"

\* sequence q without its i-th element
RemoveAt(q, i) == [j \in 1..(Len(q) - 1) |-> IF j < i THEN q[j] ELSE q[j + 1]]

Min(x, y) == IF x < y THEN x ELSE y

\* the row groups of the iterators, in input order, as <<iterator, group>>
RECURSIVE AllRowGroups(_, _)
AllRowGroups(groups, k) ==
    IF k > Len(groups) THEN <<>>
    ELSE [j \in 1..groups[k] |-> <<k, j>>] \o AllRowGroups(groups, k + 1)

RECURSIVE SeqsUpTo(_, _)
SeqsUpTo(S, n) ==
    IF n = 0 THEN {<<>>}
    ELSE SeqsUpTo(S, n - 1) \cup [1..n -> S]

PqInit ==
    /\ pcfg \in [num_threads : 1..MaxThreads,
                 groups : SeqsUpTo(0..MaxGroups, MaxItems)]
    /\ pq = [main_pc |-> "start", next_item |-> 1, in_progress |-> <<>>,
             hand |-> 0, chan |-> <<>>, tx_open |-> TRUE, rx_open |-> TRUE,
             writer_pc |-> "none", whand |-> 0, wgroup |-> 0,
             written |-> <<>>, result |-> "none"]

\* generate_parquet up to its sending loop: Ok(()) at once when there is no
\* input iterator, otherwise the stream and the channel are set up and the
\* writer task is spawned
PqStart ==
    /\ pq.main_pc = "start"
    /\ pq' = IF pcfg.groups = <<>>
             THEN [pq EXCEPT !.main_pc = "done", !.result = "ok"]
             ELSE [pq EXCEPT !.main_pc = "next", !.writer_pc = "new"]
    /\ UNCHANGED pcfg
    /\ UNCHANGED notPq

\* a poll of row_group_stream.next(): the queue is filled with futures for
\* the next iterators, each spawning its encoding task; then the result next
\* in order is yielded if it is ready, or None if nothing is left, which ends
\* the loop and drops tx
PollNext ==
    /\ pq.main_pc = "next"
    /\ \E c \in {Min(Buffered(pcfg.num_threads) - Len(pq.in_progress),
                     Len(pcfg.groups) - pq.next_item + 1)} :
       \E q \in {pq.in_progress
                   \o [i \in 1..c |-> [item |-> pq.next_item + i - 1,
                                       st |-> "encoding"]]} :
         /\ c > 0 \/ q = <<>> \/ ReadyIndex(q) # 0
         /\ pq' = IF q = <<>>
                  THEN [pq EXCEPT !.main_pc = "join", !.tx_open = FALSE]
                  ELSE IF ReadyIndex(q) # 0
                  THEN [pq EXCEPT !.next_item = @ + c,
                                  !.in_progress = RemoveAt(q, ReadyIndex(q)),
                                  !.hand = q[ReadyIndex(q)].item,
                                  !.main_pc = "send"]
                  ELSE [pq EXCEPT !.next_item = @ + c, !.in_progress = q]
    /\ UNCHANGED pcfg
    /\ UNCHANGED notPq

\* the encoding task of a future in the queue completes
EncodeDone(i) ==
    /\ i \in 1..Len(pq.in_progress)
    /\ pq.in_progress[i].st = "encoding"
    /\ pq' = [pq EXCEPT !.in_progress[i].st = "encoded"]
    /\ UNCHANGED pcfg
    /\ UNCHANGED notPq

\* tx.send(chunks).await completes: the chunks go into the channel, or the
\* send fails, which ends the loop and drops tx
Send ==
    /\ pq.main_pc = "send"
    /\ \E r \in {SendResult(pq.rx_open, Len(pq.chan),
                            ChannelCapacity(pcfg.num_threads))} :
         /\ r # "pending"
         /\ pq' = IF r = "ok"
                  THEN [pq EXCEPT !.chan = Append(@, pq.hand), !.hand = 0,
                                  !.main_pc = "next"]
                  ELSE [pq EXCEPT !.hand = 0, !.main_pc = "join",
                                  !.tx_open = FALSE]
    /\ UNCHANGED pcfg
    /\ UNCHANGED notPq

\* the writer task stops by a panic of one of its unwraps: rx and what the
\* channel and the task hold are dropped
WriterPanic ==
    [pq EXCEPT !.writer_pc = "panicked", !.rx_open = FALSE, !.chan = <<>>,
               !.whand = 0, !.wgroup = 0]

\* the writer task creates the SerializedFileWriter
WriterCreate(sink_ok) ==
    /\ pq.writer_pc = "new"
    /\ pq' = IF sink_ok THEN [pq EXCEPT !.writer_pc = "recv"] ELSE WriterPanic
    /\ UNCHANGED pcfg
    /\ UNCHANGED notPq

\* rx.blocking_recv() returns: the next message, or None once the channel is
\* empty and tx is dropped
WriterRecv ==
    /\ pq.writer_pc = "recv"
    /\ pq.chan # <<>> \/ ~pq.tx_open
    /\ pq' = IF pq.chan = <<>> THEN [pq EXCEPT !.writer_pc = "finish"]
             ELSE IF pcfg.groups[Head(pq.chan)] = 0
             THEN [pq EXCEPT !.chan = Tail(@)]
             ELSE [pq EXCEPT !.chan = Tail(@), !.whand = Head(pq.chan),
                             !.wgroup = 1, !.writer_pc = "write"]
    /\ UNCHANGED pcfg
    /\ UNCHANGED notPq

\* one iteration of the for loop over the row groups of a message
WriterWrite(sink_ok) ==
    /\ pq.writer_pc = "write"
    /\ pq' = IF ~sink_ok THEN WriterPanic
             ELSE IF pq.wgroup < pcfg.groups[pq.whand]
             THEN [pq EXCEPT !.written = Append(@, <<pq.whand, pq.wgroup>>),
                             !.wgroup = @ + 1]
             ELSE [pq EXCEPT !.written = Append(@, <<pq.whand, pq.wgroup>>),
                             !.wgroup = 0, !.whand = 0, !.writer_pc = "recv"]
    /\ UNCHANGED pcfg
    /\ UNCHANGED notPq

\* writer.into_inner()?.into_size()? and the return of the writer task
WriterFinish(sink_ok) ==
    /\ pq.writer_pc = "finish"
    /\ pq' = [pq EXCEPT !.writer_pc = IF sink_ok THEN "ok" ELSE "err",
                        !.rx_open = FALSE]
    /\ UNCHANGED pcfg
    /\ UNCHANGED notPq

\* writer_task.await?? completes and generate_parquet returns
Join ==
    /\ pq.main_pc = "join"
    /\ pq.writer_pc \in {"ok", "err", "panicked"}
    /\ pq' = [pq EXCEPT !.main_pc = "done",
                        !.result = IF pq.writer_pc = "ok" THEN "ok" ELSE "err"]
    /\ UNCHANGED pcfg
    /\ UNCHANGED notPq

PqNext ==
    \/ PqStart
    \/ PollNext
    \/ \E i \in 1..MaxThreads : EncodeDone(i)
    \/ Send
    \/ \E sink_ok \in BOOLEAN : WriterCreate(sink_ok)
    \/ WriterRecv
    \/ \E sink_ok \in BOOLEAN : WriterWrite(sink_ok)
    \/ \E sink_ok \in BOOLEAN : WriterFinish(sink_ok)
    \/ Join

SpecPqInit == PqInit /\ RngIdle /\ LongIdle /\ GenIdle /\ PoolIdle /\ ValIdle /\ CallIdle

SpecPq == SpecPqInit /\ [][PqNext]_vars

\* every task that can run does so in the end: the tokio runtime polls a
\* woken task, and the blocking thread of the writer runs
SpecPqFair ==
    /\ SpecPq
    /\ WF_vars(PqStart) /\ WF_vars(PollNext) /\ WF_vars(Send) /\ WF_vars(Join)
    /\ WF_vars(\E i \in 1..MaxThreads : EncodeDone(i))
    /\ WF_vars(\E sink_ok \in BOOLEAN : WriterCreate(sink_ok))
    /\ WF_vars(WriterRecv)
    /\ WF_vars(\E sink_ok \in BOOLEAN : WriterWrite(sink_ok))
    /\ WF_vars(\E sink_ok \in BOOLEAN : WriterFinish(sink_ok))

\* the chunks in flight: encoding started and not yet written
InFlight ==
    Len(pq.in_progress) + (IF pq.hand # 0 THEN 1 ELSE 0) + Len(pq.chan)
        + (IF pq.whand # 0 THEN 1 ELSE 0)

\* whether sequence s is the beginning of sequence t
IsPrefix(s, t) == Len(s) <= Len(t) /\ \A i \in 1..Len(s) : s[i] = t[i]

\* C8: the row groups written so far are always the first row groups of the
\* input, in the order of the iterators and, within an iterator, of its row
\* groups; when generate_parquet returns Ok every row group has been written
\* once.
C8_WrittenInOrder ==
    /\ IsPrefix(pq.written, AllRowGroups(pcfg.groups, 1))
    /\ pq.result = "ok" => pq.written = AllRowGroups(pcfg.groups, 1)

\* row groups have been written while a later encoding task has finished
\* before an earlier one
C8_Witness ==
    /\ pq.written # <<>>
    /\ Len(pq.in_progress) >= 2
    /\ pq.in_progress[1].st = "encoding"
    /\ pq.in_progress[2].st = "encoded"

\* C9: once the writer task has stopped by a failure nothing more is written
\* and nothing more enters the channel; a send that completes after the
\* receiver is gone ends the sending loop; generate_parquet returns an error
\* whenever the writer task failed; and generate_parquet returns in every
\* execution.
C9_WriterFailure ==
    /\ []((pq.main_pc = "done" /\ pq.writer_pc \in {"panicked", "err"})
            => pq.result = "err")
    /\ [][pq.writer_pc = "panicked"
            => (pq'.written = pq.written /\ pq'.chan = <<>>)]_vars
    /\ [][(pq.main_pc = "send" /\ ~pq.rx_open /\ pq'.main_pc # "send")
            => (pq'.main_pc = "join" /\ ~pq'.tx_open)]_vars
    /\ <>(pq.main_pc = "done")

\* the writer failed after it had written some row groups, the loop ended
\* before all iterators were taken, and the caller got an error
C9_Witness ==
    /\ pq.writer_pc = "panicked"
    /\ pq.written # <<>>
    /\ pq.next_item <= Len(pcfg.groups)
    /\ pq.main_pc = "done"
    /\ pq.result = "err"

\* C10: at most num_threads chunks are in flight.
C10_InFlightBound == InFlight <= pcfg.num_threads

\* C10, amended: at most 2 * num_threads + 1 chunks are in flight, at most
\* num_threads of them in the encoding stage, started and not yet yielded by
\* the stream, and at most num_threads in the channel.
C10_InFlightAmended ==
    /\ InFlight <= 2 * pcfg.num_threads + 1
    /\ Len(pq.in_progress) <= pcfg.num_threads
    /\ Len(pq.chan) <= pcfg.num_threads

\* with two threads, five chunks are in flight
C10_Witness ==
    /\ pcfg.num_threads = 2
    /\ InFlight = 5
    /\ pq.whand # 0

----------------------------------------------------------------------------
(* The shared default text pool: TextPoolSupplier::get of textgen.rs, a    *)
(* Mutex<Option<Arc<TextPool>>> filled under a Once, and                   *)
(* TextPool::get_or_init_default of text.rs, a OnceLock.  Several threads  *)
(* make their first call at the same time.                                 *)

\* largest number of threads that call at the same time
MaxCallers == 3

PoolImpls == {"TextPoolSupplier", "OnceLock"}

\* (a guard that lets every caller that finds it incomplete run the closure)
OnceOutcomeUnguarded(once) ==
    IF once = "complete" THEN "skip" ELSE "run"

\* Once::call_once / OnceLock::get_or_init seen by a caller: the closure is
\* skipped when the guard is complete, run by the caller that finds it
\* incomplete, and waited for while another caller runs it
OnceOutcome(once) ==
    IF once = "complete" THEN "skip"
    ELSE IF once = "incomplete" THEN "run" ELSE "wait"

PoolInit ==
    \E i \in PoolImpls, n \in 1..MaxCallers :
        tp = [impl |-> i, mutex |-> 0, cell |-> 0, once |-> "incomplete",
              constructed |-> 0,
              pc |-> [t \in 1..n |->
                        IF i = "OnceLock" THEN "get_or_init" ELSE "fast_lock"],
              local |-> [t \in 1..n |-> 0],
              got |-> [t \in 1..n |-> 0]]

Callers == DOMAIN tp.pc

\* self.text_pool.lock(): at the fast path, inside the closure and at the
\* final read
Lock(t) ==
    /\ t \in Callers
    /\ tp.pc[t] \in {"fast_lock", "init_lock", "final_lock"}
    /\ tp.mutex = 0
    /\ tp' = [tp EXCEPT !.mutex = t,
                        !.pc[t] = IF tp.pc[t] = "fast_lock" THEN "fast_check"
                                  ELSE IF tp.pc[t] = "init_lock" THEN "init_store"
                                  ELSE "final_read"]
    /\ UNCHANGED notPool

\* the fast path: return the pool if it is there, and drop the guard
FastCheck(t) ==
    /\ t \in Callers
    /\ tp.pc[t] = "fast_check"
    /\ tp' = IF tp.cell # 0
             THEN [tp EXCEPT !.mutex = 0, !.got[t] = tp.cell, !.pc[t] = "done"]
             ELSE [tp EXCEPT !.mutex = 0, !.pc[t] = "call_once"]
    /\ UNCHANGED notPool

\* self.init.call_once(..) / DEFAULT_TEXT_POOL.get_or_init(..) is entered
CallOnce(t) ==
    /\ t \in Callers
    /\ tp.pc[t] \in {"call_once", "get_or_init"}
    /\ OnceOutcome(tp.once) # "wait"
    /\ tp' = IF OnceOutcome(tp.once) = "run"
             THEN [tp EXCEPT !.once = "running", !.pc[t] = "init_create"]
             ELSE IF tp.pc[t] = "call_once"
             THEN [tp EXCEPT !.pc[t] = "final_lock"]
             ELSE [tp EXCEPT !.got[t] = tp.cell, !.pc[t] = "done"]
    /\ UNCHANGED notPool

\* the closure builds the pool: create_default_text_pool / TextPool::new
InitCreate(t) ==
    /\ t \in Callers
    /\ tp.pc[t] = "init_create"
    /\ tp' = [tp EXCEPT !.constructed = @ + 1,
                        !.local[t] = tp.constructed + 1,
                        !.pc[t] = IF tp.impl = "OnceLock" THEN "init_set"
                                  ELSE "init_lock"]
    /\ UNCHANGED notPool

\* the closure stores the pool and returns, which completes the guard
InitStore(t) ==
    /\ t \in Callers
    /\ tp.pc[t] \in {"init_store", "init_set"}
    /\ tp' = IF tp.pc[t] = "init_store"
             THEN [tp EXCEPT !.cell = tp.local[t], !.mutex = 0,
                             !.once = "complete", !.pc[t] = "final_lock"]
             ELSE [tp EXCEPT !.cell = tp.local[t], !.once = "complete",
                             !.got[t] = tp.local[t], !.pc[t] = "done"]
    /\ UNCHANGED notPool

\* self.text_pool.lock().unwrap().as_ref().unwrap().clone()
FinalRead(t) ==
    /\ t \in Callers
    /\ tp.pc[t] = "final_read"
    /\ tp' = IF tp.cell = 0
             THEN [tp EXCEPT !.mutex = 0, !.pc[t] = "panicked"]
             ELSE [tp EXCEPT !.mutex = 0, !.got[t] = tp.cell, !.pc[t] = "done"]
    /\ UNCHANGED notPool

PoolNext ==
    \E t \in 1..MaxCallers :
        \/ Lock(t)
        \/ FastCheck(t)
        \/ CallOnce(t)
        \/ InitCreate(t)
        \/ InitStore(t)
        \/ FinalRead(t)

SpecPoolInit == PoolInit /\ RngIdle /\ LongIdle /\ GenIdle /\ PqIdle /\ ValIdle /\ CallIdle

SpecPool == SpecPoolInit /\ [][PoolNext]_vars

\* C11: the pool is built at most once, and exactly once when a caller has
\* returned; all callers that returned hold that one pool; no caller finds
\* the pool missing; and as long as a caller has not returned some caller
\* can take a step.
C11_PoolOnce ==
    /\ tp.constructed <= 1
    /\ \A t \in Callers : tp.pc[t] # "panicked"
    /\ \A t \in Callers :
         tp.pc[t] = "done" => (tp.constructed = 1 /\ tp.got[t] = 1)
    /\ (\E t \in Callers : tp.pc[t] # "done") => ENABLED PoolNext

\* three callers have all returned
C11_Witness ==
    /\ Cardinality(Callers) = 3
    /\ \A t \in Callers : tp.pc[t] = "done" /\ tp.got[t] = tp.cell
    /\ tp.constructed = 1

\* C12: no RNG has made more draws in the current row than its
\* expected_usage_per_row.
C12_UsageWithinBudget == usage <= expected

----------------------------------------------------------------------------
(* One value generator at work: next_value makes its draws one after       *)
(* another on the generator's RNG, row_finished closes the row.            *)

\* number of words of a part name
NAME_WORDS == 5

\* sizes of the distribution a RandomStringSequence draws from
DistributionSizes == {6, 8}

\* the builds of TpchRng
TpchRngBuilds == {"TpchRng_debug", "TpchRng_release"}

\* how many values one row takes from a generator of a table: one for the
\* single-valued columns, SUPPLIERS_PER_PART in PARTSUPP, one per line in
\* LINEITEM
ValuesPerRow(expected_row_count) ==
    CASE expected_row_count = LINE_COUNT_MAX -> LINE_COUNT_MIN..LINE_COUNT_MAX
      [] OTHER -> {expected_row_count}

\* the value generators of rng.rs, each with the budget its constructor
\* gives its TpchRng
TpchValueRngs ==
    { [name |-> "TpchPhoneNumberRng::new", impl |-> b, seed |-> 933588178,
       expected |-> 1, shape |-> "phone", average_length |-> 0, size |-> 0,
       per_row |-> {1}] : b \in TpchRngBuilds }
    \cup
    { [name |-> "TpchPhoneNumberRng::new_with_row_usage", impl |-> b,
       seed |-> 933588178, expected |-> 3 * n, shape |-> "phone",
       average_length |-> 0, size |-> 0, per_row |-> {n}]
      : b \in TpchRngBuilds, n \in {1} }
    \cup
    { [name |-> "TpchAlphanumRng::new", impl |-> b, seed |-> 933588178,
       expected |-> 9 * n, shape |-> "alphanumeric", average_length |-> 25,
       size |-> 0, per_row |-> {n}] : b \in TpchRngBuilds, n \in {1} }

\* the value generators of textgen.rs as the table generators construct
\* them, each with the budget its constructor gives its AbstractRandomInt
RandomValues ==
    { [name |-> "RandomPhoneNumber::new", impl |-> "AbstractRandomInt",
       seed |-> 884434366, expected |-> 3 * n, shape |-> "phone",
       average_length |-> 0, size |-> 0, per_row |-> {n}] : n \in {1} }
    \cup
    { [name |-> "RandomAlphaNumeric::new", impl |-> "AbstractRandomInt",
       seed |-> 706178559, expected |-> 9 * n, shape |-> "alphanumeric",
       average_length |-> 25, size |-> 0, per_row |-> {n}] : n \in {1} }
    \cup
    { [name |-> "RandomText::new_with_expected_row_count",
       impl |-> "AbstractRandomInt", seed |-> 1341315363, expected |-> n * 2,
       shape |-> "text", average_length |-> LineItemGenerator_COMMENT_AVERAGE_LENGTH,
       size |-> 0, per_row |-> ValuesPerRow(n)]
      : n \in {1, SUPPLIERS_PER_PART, LINE_COUNT_MAX} }
    \cup
    { [name |-> "RandomStringSequence::new", impl |-> "AbstractRandomInt",
       seed |-> 709314158, expected |-> d * n, shape |-> "sequence",
       average_length |-> 0, size |-> d, per_row |-> {n}]
      : d \in DistributionSizes, n \in {1} }
    \cup
    { [name |-> "RandomBoundedInt::new_with_expected_row_count",
       impl |-> "AbstractRandomInt", seed |-> 209208115, expected |-> n,
       shape |-> "int", average_length |-> 0, size |-> 0,
       per_row |-> ValuesPerRow(n)]
      : n \in {1, SUPPLIERS_PER_PART, LINE_COUNT_MAX} }

\* one next_int call of a next_value: its range, whether the model keeps the
\* raw seed as the result, and whether the result is the length of a string
\* whose characters are drawn next
DrawOf(lo, hi, raw, chars) == [lo |-> lo, hi |-> hi, raw |-> raw, chars |-> chars]

\* the draws next_value of a generator starts with
NextValueDraws(v) ==
    CASE v.shape = "phone" ->
             << DrawOf(100, 999, FALSE, FALSE), DrawOf(100, 999, FALSE, FALSE),
                DrawOf(1000, 9999, FALSE, FALSE) >>
      [] v.shape = "alphanumeric" ->
             << DrawOf(MinLength(v.average_length), MaxLength(v.average_length),
                       FALSE, TRUE) >>
      [] v.shape = "text" ->
             << DrawOf(0, 0, TRUE, FALSE),
                DrawOf(MinLength(v.average_length), MaxLength(v.average_length),
                       FALSE, FALSE) >>
      [] v.shape = "sequence" ->
             [ i \in 1..NAME_WORDS |-> DrawOf(i - 1, v.size - 1, FALSE, FALSE) ]
      [] OTHER -> << DrawOf(QUANTITY_MIN, QUANTITY_MAX, FALSE, FALSE) >>

\* the draws the character loop of an alphanumeric string of this length
\* makes: one for every i in 0..length-1 with i % 5 = 0
CharDraws(length) ==
    [ k \in 1..Cardinality({ i \in 0..(length - 1) : i % 5 = 0 })
        |-> DrawOf(0, 0, TRUE, FALSE) ]

\* next_int of TpchRng (either build) and of AbstractRandomInt
RowNextInt(i, o, lo, hi, raw) ==
    IF UsageExceeded(i, o.usage, o.expected)
    THEN Panicked(o)
    ELSE Only({ [o EXCEPT !.seed = s1, !.usage = @ + 1,
                          !.ret = IF raw THEN s1 ELSE lo + ValueInRange(s1, lo, hi)]
              : s1 \in {NextRand(o.seed)} })

ValInit ==
    \E v \in TpchValueRngs \cup RandomValues :
        vg = [gen |-> v, rng |-> NewColumn(v.seed, v.expected, FALSE),
              todo |-> <<>>, values |-> 0, attempts |-> 0, drawn |-> <<>>]

\* the table generator asks for the next value of the row
ValNextValue ==
    /\ vg.rng.status = "ready"
    /\ vg.todo = <<>>
    /\ \E n \in vg.gen.per_row : vg.values < n
    /\ vg' = [vg EXCEPT !.todo = NextValueDraws(vg.gen), !.values = @ + 1]
    /\ UNCHANGED notVal

\* next_value makes its next draw
ValDraw ==
    /\ vg.rng.status = "ready"
    /\ vg.todo # <<>>
    /\ \E d \in {Head(vg.todo)} :
       \E o \in {RowNextInt(vg.gen.impl, vg.rng, d.lo, d.hi, d.raw)} :
          vg' = [vg EXCEPT
                   !.rng = o,
                   !.attempts = @ + 1,
                   !.drawn = IF o.status = "ready" THEN Append(@, o.ret) ELSE @,
                   !.todo = IF o.status # "ready" THEN <<>>
                            ELSE IF d.chars THEN CharDraws(o.ret) \o Tail(@)
                            ELSE Tail(@)]
    /\ UNCHANGED notVal

\* the table generator closes the row
ValRowFinished ==
    /\ vg.rng.status = "ready"
    /\ vg.todo = <<>>
    /\ vg.values \in vg.gen.per_row
    /\ vg.rng.rows < MaxRows
    /\ vg' = [vg EXCEPT !.rng = IntRowFinished(@), !.values = 0,
                        !.attempts = 0, !.drawn = <<>>]
    /\ UNCHANGED notVal

ValNext == ValNextValue \/ ValDraw \/ ValRowFinished

SpecValInit ==
    ValInit /\ RngIdle /\ LongIdle /\ GenIdle /\ PqIdle /\ PoolIdle /\ CallIdle

SpecVal == SpecValInit /\ [][ValNext]_vars

\* C13: no value generator attempts more draws in one row than the budget
\* (expected_usage_per_row) its RNG was constructed with.
C13_DrawsWithinBudget == vg.attempts <= vg.rng.expected

\* the same for the generators of textgen.rs alone, which moreover never
\* abort
C13_TextgenWithinBudget ==
    vg.gen \in RandomValues =>
        (vg.attempts <= vg.rng.expected /\ vg.rng.status = "ready")

----------------------------------------------------------------------------
(* Single calls of the helpers of the table generators: make_order_key,    *)
(* the customer mortality loop of OrderGenerator::generate, and the four   *)
(* select_part_supplier calls PartSuppGenerator::generate makes for a part.*)

\* largest dense order index a call is made with
MaxOrderIndex == 40
\* largest max_customer_key of a mortality loop
MaxCustomers == 12
\* largest of the small supplier counts
MaxSuppliers == 12

\* supplier counts floor(10000 * SF) of the calls: the small ones, the ones
\* around 240, and the count of the model's scale factor
SupplierCounts ==
    (SUPPLIERS_PER_PART..MaxSuppliers) \cup {228, 240, 241, 242}
        \cup {SupplierGenerator_SCALE_BASE * ScaleFactor}

\* part keys of a scale factor with this many suppliers: floor(200000 * SF)
\* is at most 20 * supplier_count + 19
PartKeys(supplier_count) ==
    1..((PartGenerator_SCALE_BASE \div SupplierGenerator_SCALE_BASE) * supplier_count
          + (PartGenerator_SCALE_BASE \div SupplierGenerator_SCALE_BASE) - 1)

\* largest size a text pool is built with
MaxPoolSize == 4
\* longest sentence; the model's stand-in for MAX_SENTENCE_LENGTH (256), the
\* room both pool builders reserve past the requested size
MaxSentenceLength == 3

\* the two builders of a text pool
PoolBuilders == {"TextPool::new", "TextPool::generate"}

\* largest part key a price is calculated for
MaxPriceKey == 1000

\* floor of the binary logarithm of n >= 1
RECURSIVE Log2(_)
Log2(n) == IF n < 2 THEN 0 ELSE 1 + Log2(n \div 2)

\* 2^j modulo m
RECURSIVE Pow2Mod(_, _)
Pow2Mod(j, m) == IF j = 0 THEN 1 % m ELSE (2 * Pow2Mod(j - 1, m)) % m

\* cents as f64 / 100.0 for cents >= 100: the f64 nearest to cents / 100
\* (ties to even).  With X = cents * 2^scale, where scale puts the quotient
\* in [2^52, 2^53), the f64 is (X + err) / (100 * 2^scale), err being the
\* integer of least magnitude that makes X + err a multiple of 100
F64Div100(cents) ==
    LET scale == 52 - Log2(cents \div 100)
        r == ((cents % 100) * Pow2Mod(scale, 100)) % 100
        \* parity of the quotient floor(X / 100) when r = 50
        odd == (((cents % 200) * Pow2Mod(scale, 200)) % 200) >= 100
    IN  [cents |-> cents, scale |-> scale,
         err |-> IF r < 50 THEN 0 - r
                 ELSE IF r > 50 THEN 100 - r
                 ELSE IF odd THEN 50 ELSE 0 - 50]

\* PartGeneratorIterator::calculate_part_price (generators.rs), in cents
PartPriceCents(part_key) ==
    90000 + ((part_key \div 10) % 20001) + (part_key % 1000) * 100

\* longest supplier comment of a call
MaxCommentLength == 30

SupplierGenerator_COMMENT_AVERAGE_LENGTH == 63
BBB_COMPLAINT_PERCENT == 50

\* a text as the sequence of its characters, each told apart from the
\* characters of any other text
TextOf(name, length) == [ k \in 1..length |-> <<name, k>> ]

BBB_BASE_TEXT == TextOf("Customer ", 9)

\* the complaint or recommendation text of a bbb_type_random value
BBBTypeText(type) ==
    IF type < BBB_COMPLAINT_PERCENT
    THEN TextOf("Complaints", 10) ELSE TextOf("Recommends", 10)

BBB_COMMENT_LENGTH == Len(BBB_BASE_TEXT) + Len(TextOf("Complaints", 10))

\* String::replace_range(from..to, text)
ReplaceRange(buffer, from, to, text) ==
    SubSeq(buffer, 1, from) \o text \o SubSeq(buffer, to + 1, Len(buffer))

\* the comment SupplierGeneratorIterator::make_supplier (generators.rs)
\* builds from the slices of the original
MakeSupplierComment(comment, noise, offset, type) ==
    SubSeq(comment, 1, offset)
      \o BBB_BASE_TEXT
      \o SubSeq(comment, offset + Len(BBB_BASE_TEXT) + 1,
                offset + Len(BBB_BASE_TEXT) + noise)
      \o BBBTypeText(type)
      \o SubSeq(comment,
                offset + Len(BBB_BASE_TEXT) + noise + Len(BBBTypeText(type)) + 1,
                Len(comment))

\* the offset SupplierGenerator::generate (textgen.rs) writes at
ActualOffset(length, noise, offset) ==
    Min(offset, IF length < BBB_COMMENT_LENGTH + noise THEN 0
                ELSE length - (BBB_COMMENT_LENGTH + noise))

\* the comment SupplierGenerator::generate (textgen.rs) builds with two
\* replace_range calls
GenerateSupplierComment(comment, noise, offset, type) ==
    LET base_offset == ActualOffset(Len(comment), noise, offset)
        type_offset == base_offset + Len(BBB_BASE_TEXT) + noise
        buffer == ReplaceRange(comment, base_offset,
                      base_offset + Min(Len(BBB_BASE_TEXT),
                                        Len(comment) - base_offset),
                      BBB_BASE_TEXT)
    IN  IF type_offset < Len(buffer)
        THEN ReplaceRange(buffer, type_offset,
                 type_offset + Min(Len(BBBTypeText(type)),
                                   Len(buffer) - type_offset),
                 BBBTypeText(type))
        ELSE buffer

\* values of bbb_type_random on both sides of BBB_COMPLAINT_PERCENT
TypeValues == {0, 49, 50, 100}

\* ---- distribution.rs: DistributionParser ----
\* A line of the distribution file after trim(), as its tokens: words, and
\* the separators " " and "|" as tokens of their own
MaxBlockLines == 3

DistLines ==
    { <<"BEGIN", " ", "d">>, <<"BEGIN", " ", "e">>,
      <<"END", " ", "d">>, <<"END", " ", "e">>, <<"END">>,
      <<"COUNT", "|", "1">>, <<"COUNT", "|", "2">>, <<"count", "|", "1">>,
      <<"v", "|", "1">>, <<"w", "|", "2">>, <<"v", "|", "x">>,
      <<"#", " ", "c">>, <<>> }

starts_with(line, prefix) ==
    /\ Len(line) >= Len(prefix)
    /\ SubSeq(line, 1, Len(prefix)) = prefix

\* str::split('|'): the parts between the separators
RECURSIVE split(_)
split(line) ==
    IF \A i \in 1..Len(line) : line[i] # "|"
    THEN <<line>>
    ELSE LET i == CHOOSE k \in 1..Len(line) :
                      line[k] = "|" /\ \A j \in 1..(k - 1) : line[j] # "|"
         IN  <<SubSeq(line, 1, i - 1)>> \o split(SubSeq(line, i + 1, Len(line)))

\* str::parse of a part: a number for a part that is one integer text
IntegerTexts == {<<"1", 1>>, <<"2", 2>>}
parse(part) ==
    IF Len(part) = 1 /\ \E t \in IntegerTexts : t[1] = part[1]
    THEN <<"Ok", (CHOOSE t \in IntegerTexts : t[1] = part[1])[2]>>
    ELSE <<"Err", 0>>

determine_distribution_type(name) ==
    CASE name = "nations" -> "Adjustment"
      [] name = "colors" -> "Restricted"
      [] name \in {"grammar", "np", "vp"} -> "Grammar"
      [] name \in {"nouns", "verbs", "adverbs", "adjectives", "articles",
                   "prepositions", "auxillaries", "terminators"} -> "TextGen"
      [] OTHER -> "Regular"

\* the for loop of validate_and_store_distribution from line i on: the error
\* of the first line that has one, else the distribution with its count and
\* entries
RECURSIVE ProcessLines(_, _, _)
ProcessLines(dist, lines, i) ==
    IF i > Len(lines) THEN [err |-> "", dist |-> dist]
    ELSE IF starts_with(lines[i], <<"COUNT", "|">>)
    THEN LET parsed == parse(split(lines[i])[2])
         IN  IF parsed[1] = "Err"
             THEN [err |-> "InvalidFormat", dist |-> dist]
             ELSE ProcessLines([dist EXCEPT !.count = parsed[2]], lines, i + 1)
    ELSE IF ~starts_with(lines[i], <<"#">>)
    THEN LET parts == split(lines[i])
             weight == parse(parts[2])
         IN  IF Len(parts) >= 2
             THEN IF weight[1] = "Err"
                  THEN [err |-> "InvalidWeight", dist |-> dist]
                  ELSE IF dist.dist_type = "Regular" /\ weight[2] <= 0
                  THEN [err |-> "InvalidWeight", dist |-> dist]
                  ELSE ProcessLines(
                           [dist EXCEPT !.entries = Append(@,
                                [value |-> parts[1], weight |-> weight[2]])],
                           lines, i + 1)
             ELSE ProcessLines(dist, lines, i + 1)
    ELSE ProcessLines(dist, lines, i + 1)

\* the result of validate_and_store_distribution and the map it leaves
validate_and_store_distribution(distributions, dist0, lines) ==
    LET typed == [dist0 EXCEPT
                     !.dist_type = determine_distribution_type(dist0.name)]
    IN  IF lines = <<>>
        THEN [err |-> "EmptyDistribution", distributions |-> distributions]
        ELSE LET r == ProcessLines(typed, lines, 1)
             IN  IF r.err # ""
                 THEN [err |-> r.err, distributions |-> distributions]
                 ELSE IF r.dist.count = 0
                 THEN [err |-> "MissingCount", distributions |-> distributions]
                 ELSE IF Len(r.dist.entries) # r.dist.count
                 THEN [err |-> "InvalidFormat", distributions |-> distributions]
                 ELSE [err |-> "",
                       distributions |->
                           [n \in DOMAIN distributions \cup {r.dist.name} |->
                               IF n = r.dist.name THEN r.dist
                               ELSE distributions[n]]]

\* ---- generators.rs: the table iterators ----
\* largest row count of a table that is iterated
MaxTableRows == 4
\* calls of next() made after the first None
MaxNoneCalls == 2

\* the sizes of the nations and regions distributions
NATION_COUNT == 25
REGION_COUNT == 5

FixedIterators == {"NationGeneratorIterator", "RegionGeneratorIterator"}
PartIterators == {"PartGeneratorIterator", "SupplierGeneratorIterator"}
Iterators == FixedIterators \cup PartIterators

\* the column generators that an iterator owns
ColumnGenerators(iterator) ==
    CASE iterator \in FixedIterators -> {"comment_random"}
      [] iterator = "PartGeneratorIterator" ->
            {"name_random", "manufacturer_random", "brand_random",
             "type_random", "size_random", "container_random",
             "comment_random"}
      [] iterator = "SupplierGeneratorIterator" ->
            {"address_random", "nation_key_random", "phone_random",
             "account_balance_random", "comment_random",
             "bbb_comment_random", "bbb_junk_random", "bbb_offset_random",
             "bbb_type_random"}

\* XGeneratorIterator::new: index 0, no row yet, no generator finished a row
NewIterator(iterator, start, rows) ==
    [fn |-> iterator, pc |-> "iter", start_index |-> start,
     row_count |-> rows, index |-> 0, keys |-> <<>>,
     finished |-> [c \in ColumnGenerators(iterator) |-> 0], nones |-> 0]

\* (a key that is the 0-based index of the row in every table)
RowKeyFromIndex(iterator, start, index) ==
    IF iterator \in FixedIterators THEN index ELSE start + index

\* the key that next() gives the row at index
RowKey(iterator, start, index) ==
    IF iterator \in FixedIterators THEN index ELSE start + index + 1

\* ---- parquet.rs: encode_row_group ----
\* An input is the row counts of the batches that the iterator yields; a
\* batch is named by its place in the input
MaxBatches == 3
MaxBatchRows == 2
MaxRowGroupSize == 3

BatchInputs == SeqsUpTo(1..MaxBatchRows, MaxBatches)

\* (a row group that is closed only when it holds more rows than asked for)
EnoughRowsStrict(num_rows, row_group_size) == num_rows > row_group_size

\* the test that ends the for loop over the batches of a row group
EnoughRows(num_rows, row_group_size) == num_rows >= row_group_size

\* ---- textgen.rs: RandomStringSequence::next_value ----
\* largest distribution a sequence is drawn from
MaxDistributionSize == 4

\* pairwise distinct values a distribution is made of
DistributionValues == <<"almond", "antique", "aquamarine", "azure", "beige",
                        "bisque">>

\* (an exchange that only copies the second element over the first)
swap_overwriting(values, a, b) == [values EXCEPT ![a] = values[b]]

\* Vec::swap on 0-based positions
swap(values, a, b) ==
    [values EXCEPT ![a + 1] = values[b + 1], ![b + 1] = values[a + 1]]

\* [String]::join
RECURSIVE join(_, _)
join(words, sep) ==
    IF Len(words) <= 1 THEN words
    ELSE <<Head(words), sep>> \o join(Tail(words), sep)

\* ---- dates.rs: the date index ----
MIN_GENERATE_DATE == 92001
TOTAL_DATE_RANGE == 2557

\* Month boundaries for a standard (non-leap) year; MONTH_YEAR_DAY_START[m]
\* of the source is MONTH_YEAR_DAY_START[m + 1] here
MONTH_YEAR_DAY_START ==
    <<0, 31, 59, 90, 120, 151, 181, 212, 243, 273, 304, 334, 365>>

is_leap_year(year) == year % 4 = 0 /\ year % 100 # 0

\* (an adjustment that starts only after February)
leap_year_adjustment_after_february(year, month) ==
    IF is_leap_year(year) /\ month > 2 THEN 1 ELSE 0

leap_year_adjustment(year, month) ==
    IF is_leap_year(year) /\ month >= 2 THEN 1 ELSE 0

\* year_end of a pass of the julian loop
YearEnd(result) ==
    (result \div 1000) * 1000 + 365
        + (IF is_leap_year(result \div 1000) THEN 1 ELSE 0)

\* the loop of TPCHDate::julian: the year * 1000 + day-of-year form of the
\* day offset days after result
RECURSIVE JulianLoop(_, _)
JulianLoop(result, offset) ==
    IF result + offset <= YearEnd(result) THEN result + offset
    ELSE JulianLoop(result + 1000, offset - (YearEnd(result) - result + 1))

\* TPCHDate::julian
julian(date) == JulianLoop(MIN_GENERATE_DATE, date - MIN_GENERATE_DATE)

\* the while loop of make_date from month m on
RECURSIVE MonthLoop(_, _, _)
MonthLoop(d, y, m) ==
    IF d > MONTH_YEAR_DAY_START[m + 1] + leap_year_adjustment(y, m)
    THEN MonthLoop(d, y, m + 1)
    ELSE m

\* NaiveDate::from_ymd_opt(..).is_some(): a day of the proleptic Gregorian
\* calendar
from_ymd_is_some(year, month, day) ==
    /\ month \in 1..12
    /\ day >= 1
    /\ day <= CASE month \in {4, 6, 9, 11} -> 30
                [] month = 2 ->
                     IF year % 4 = 0 /\ (year % 100 # 0 \/ year % 400 = 0)
                     THEN 29 ELSE 28
                [] OTHER -> 31

\* make_date from the julian form of its day on: <<year, month, day>>, or
\* <<>> when from_ymd_opt gives None and unwrap panics
make_date(julian_day) ==
    LET y == julian_day \div 1000
        d == julian_day % 1000
        m == MonthLoop(d, y, 0)
        dy == d - MONTH_YEAR_DAY_START[(m - 1) + 1]
                - (IF is_leap_year(y) /\ m > 2 THEN 1 ELSE 0)
    IN  IF from_ymd_is_some(1900 + y, m, dy) THEN <<1900 + y, m, dy>>
        ELSE <<>>

CallInit ==
    \/ fc = [fn |-> "make_date_index", pc |-> "for", i |-> 0, len |-> 0,
             previous |-> <<>>, last |-> <<>>, offset |-> 0,
             result |-> MIN_GENERATE_DATE, passes |-> 0]
    \/ \E n \in 1..MaxDistributionSize : \E k \in 1..n :
          fc = [fn |-> "RandomStringSequence::next_value",
                distribution |-> SubSeq(DistributionValues, 1, n),
                count |-> k, pc |-> "call", current_position |-> 0,
                values |-> <<>>, draws |-> <<>>, result |-> <<>>]
    \/ \E batches \in BatchInputs, size \in 0..MaxRowGroupSize :
          fc = [fn |-> "encode_row_group", batches |-> batches,
                row_group_size |-> size, pc |-> "peek", taken |-> 0,
                num_rows |-> 0, row_group |-> <<>>,
                finished_row_groups |-> <<>>]
    \/ \E it \in FixedIterators :
          fc = NewIterator(it, 0, IF it = "NationGeneratorIterator"
                                  THEN NATION_COUNT ELSE REGION_COUNT)
    \/ \E it \in PartIterators, n \in 0..MaxTableRows, k \in 1..MaxParts :
       \E part \in 1..k :
          fc = NewIterator(it, start_index(n, part, k), row_count(n, part, k))
    \/ fc = [fn |-> "DistributionParser::parse", pc |-> "lines",
             distributions |-> <<>>, current_dist |-> <<>>,
             current_lines |-> <<>>, result |-> <<>>]
    \/ \E len \in MinLength(SupplierGenerator_COMMENT_AVERAGE_LENGTH)..MaxCommentLength,
          type \in TypeValues :
          \/ \E noise \in 0..(len - BBB_COMMENT_LENGTH) :
             \E offset \in 0..(len - (BBB_COMMENT_LENGTH + noise)) :
                fc = [fn |-> "make_supplier", comment |-> TextOf("comment", len),
                      noise |-> noise, offset |-> offset, type |-> type,
                      pc |-> "call", at |-> 0, result |-> <<>>]
          \/ \E noise, offset \in 0..SupplierGenerator_COMMENT_AVERAGE_LENGTH :
                fc = [fn |-> "SupplierGenerator::generate",
                      comment |-> TextOf("comment", len),
                      noise |-> noise, offset |-> offset, type |-> type,
                      pc |-> "call", at |-> 0, result |-> <<>>]
    \/ \E b \in PoolBuilders, n \in 0..MaxPoolSize :
          \* text.rs: an empty Vec; textgen.rs: a ByteArrayBuilder over a
          \* zeroed buffer of size + MAX_SENTENCE_LENGTH bytes
          fc = [fn |-> b, size |-> n, pc |-> "loop", length |-> 0,
                bytes |-> IF b = "TextPool::generate"
                          THEN n + MaxSentenceLength ELSE 0,
                sentences |-> 0, text |-> 0, text_pool_size |-> 0]
    \/ \E pk \in 1..MaxPriceKey :
          fc = [fn |-> "make_part", part_key |-> pk, pc |-> "call",
                price |-> 0, p_retailprice |-> <<>>]
    \/ \E x \in 1..MaxOrderIndex :
          fc = [fn |-> "make_order_key", order_index |-> x, pc |-> "call",
                key |-> 0, next_key |-> 0]
    \/ \E m \in 1..MaxCustomers : \E k \in 1..m :
          fc = [fn |-> "mortality", max_customer_key |-> m, drawn |-> k,
                customer_key |-> k, delta |-> 1, passes |-> 0, pc |-> "loop"]
    \/ \E sc \in SupplierCounts : \E pk \in PartKeys(sc) :
          fc = [fn |-> "select_part_supplier", supplier_count |-> sc,
                part_key |-> pk, pc |-> "call", keys |-> <<>>]

\* make_order_key for an order and for the order after it
CallMakeOrderKey ==
    /\ fc.fn = "make_order_key" /\ fc.pc = "call"
    /\ fc' = [fc EXCEPT !.key = make_order_key(fc.order_index),
                        !.next_key = make_order_key(fc.order_index + 1),
                        !.pc = "done"]
    /\ UNCHANGED notCall

\* one pass of the while loop
MortalityPass ==
    /\ fc.fn = "mortality" /\ fc.pc = "loop"
    /\ fc.customer_key % CUSTOMER_MORTALITY = 0
    /\ fc' = [fc EXCEPT
                !.customer_key = MortalityStep(fc.customer_key, fc.delta,
                                               fc.max_customer_key),
                !.delta = 0 - @,
                !.passes = @ + 1]
    /\ UNCHANGED notCall

\* the while loop ends
MortalityExit ==
    /\ fc.fn = "mortality" /\ fc.pc = "loop"
    /\ fc.customer_key % CUSTOMER_MORTALITY # 0
    /\ fc' = [fc EXCEPT !.pc = "done"]
    /\ UNCHANGED notCall

\* the supplier keys of the SUPPLIERS_PER_PART rows of a part
CallSelectPartSupplier ==
    /\ fc.fn = "select_part_supplier" /\ fc.pc = "call"
    /\ fc' = [fc EXCEPT
                !.keys = [ i \in 1..SUPPLIERS_PER_PART |->
                             SupplierOfPart(fc.part_key, i - 1, fc.supplier_count) ],
                !.pc = "done"]
    /\ UNCHANGED notCall

\* the BBB branch of make_supplier (generators.rs)
CallMakeSupplier ==
    /\ fc.fn = "make_supplier" /\ fc.pc = "call"
    /\ fc' = [fc EXCEPT
                !.result = MakeSupplierComment(fc.comment, fc.noise, fc.offset,
                                               fc.type),
                !.at = fc.offset,
                !.pc = "done"]
    /\ UNCHANGED notCall

\* the BBB branch of SupplierGenerator::generate (textgen.rs)
CallGenerateSupplier ==
    /\ fc.fn = "SupplierGenerator::generate" /\ fc.pc = "call"
    /\ fc' = [fc EXCEPT
                !.result = GenerateSupplierComment(fc.comment, fc.noise,
                                                   fc.offset, fc.type),
                !.at = ActualOffset(Len(fc.comment), fc.noise, fc.offset),
                !.pc = "done"]
    /\ UNCHANGED notCall

\* the for loop of make_date_index calls make_date(i + 1), which starts
\* julian(i + 1 + MIN_GENERATE_DATE - 1)
DateIndexNext ==
    /\ fc.fn = "make_date_index" /\ fc.pc = "for"
    /\ fc.i < TOTAL_DATE_RANGE
    /\ fc' = [fc EXCEPT !.pc = "julian",
                !.offset = ((fc.i + 1) + MIN_GENERATE_DATE - 1)
                              - MIN_GENERATE_DATE,
                !.result = MIN_GENERATE_DATE, !.passes = 0]
    /\ UNCHANGED notCall

\* a pass of the julian loop that goes on to the next year
JulianPass ==
    /\ fc.fn = "make_date_index" /\ fc.pc = "julian"
    /\ ~(fc.result + fc.offset <= YearEnd(fc.result))
    /\ fc' = [fc EXCEPT !.offset = @ - (YearEnd(fc.result) - fc.result + 1),
                !.result = @ + 1000, !.passes = @ + 1]
    /\ UNCHANGED notCall

\* the julian loop breaks; make_date finds month and day and the date is
\* pushed
DateIndexPush ==
    /\ fc.fn = "make_date_index" /\ fc.pc = "julian"
    /\ fc.result + fc.offset <= YearEnd(fc.result)
    /\ \E date \in {make_date(fc.result + fc.offset)} :
          IF date = <<>>
          THEN fc' = [fc EXCEPT !.pc = "panicked"]
          ELSE fc' = [fc EXCEPT !.pc = "for", !.i = @ + 1, !.len = @ + 1,
                        !.previous = fc.last, !.last = date]
    /\ UNCHANGED notCall

\* the for loop is over: make_date_index returns dates
DateIndexReturn ==
    /\ fc.fn = "make_date_index" /\ fc.pc = "for"
    /\ ~(fc.i < TOTAL_DATE_RANGE)
    /\ fc' = [fc EXCEPT !.pc = "done"]
    /\ UNCHANGED notCall

\* next_value up to its for loop: the assertion and the copy of the values
SequenceCall ==
    /\ fc.fn = "RandomStringSequence::next_value"
    /\ fc.pc \in {"call", "done"}
    /\ IF ~(fc.count < Len(fc.distribution))
       THEN fc' = [fc EXCEPT !.pc = "panicked"]
       ELSE fc' = [fc EXCEPT !.pc = "loop", !.current_position = 0,
                     !.values = [i \in 1..Len(fc.distribution) |->
                                    fc.distribution[i]],
                     !.draws = <<>>, !.result = <<>>]
    /\ UNCHANGED notCall

\* one pass of the for loop: next_int(current_position, size - 1) gives the
\* position to swap with, any of the range
SequenceSwap ==
    /\ fc.fn = "RandomStringSequence::next_value" /\ fc.pc = "loop"
    /\ fc.current_position < fc.count
    /\ \E swap_position \in fc.current_position..(Len(fc.distribution) - 1) :
          fc' = [fc EXCEPT
                   !.draws = Append(@, <<fc.current_position,
                                         Len(fc.distribution) - 1,
                                         swap_position>>),
                   !.values = swap(@, fc.current_position, swap_position),
                   !.current_position = @ + 1]
    /\ UNCHANGED notCall

\* the for loop is over: the first count values, joined
SequenceJoin ==
    /\ fc.fn = "RandomStringSequence::next_value" /\ fc.pc = "loop"
    /\ ~(fc.current_position < fc.count)
    /\ fc' = [fc EXCEPT !.result = join(SubSeq(fc.values, 1, fc.count), " "),
                !.pc = "done"]
    /\ UNCHANGED notCall

\* the head of the outer loop of encode_row_group: return when peek() finds
\* no batch, else new column writers and num_rows = 0
EncodePeek ==
    /\ fc.fn = "encode_row_group" /\ fc.pc = "peek"
    /\ IF fc.taken = Len(fc.batches)
       THEN fc' = [fc EXCEPT !.pc = "done"]
       ELSE fc' = [fc EXCEPT !.pc = "batches", !.num_rows = 0,
                     !.row_group = <<>>]
    /\ UNCHANGED notCall

\* one pass of the for loop: the next batch is written to the column writers;
\* with enough rows the loop breaks and the row group is pushed
EncodeBatch ==
    /\ fc.fn = "encode_row_group" /\ fc.pc = "batches"
    /\ fc.taken < Len(fc.batches)
    /\ \E batch \in {fc.taken + 1} :
       \E num_rows \in {fc.num_rows + fc.batches[batch]} :
          IF EnoughRows(num_rows, fc.row_group_size)
          THEN fc' = [fc EXCEPT !.taken = batch, !.num_rows = num_rows,
                        !.row_group = <<>>,
                        !.finished_row_groups =
                            Append(@, Append(fc.row_group, batch)),
                        !.pc = "peek"]
          ELSE fc' = [fc EXCEPT !.taken = batch, !.num_rows = num_rows,
                        !.row_group = Append(@, batch)]
    /\ UNCHANGED notCall

\* the for loop ends because the iterator has no more batches: the row group
\* is pushed as it is
EncodeLastGroup ==
    /\ fc.fn = "encode_row_group" /\ fc.pc = "batches"
    /\ fc.taken = Len(fc.batches)
    /\ fc' = [fc EXCEPT !.row_group = <<>>,
                !.finished_row_groups = Append(@, fc.row_group),
                !.pc = "peek"]
    /\ UNCHANGED notCall

\* next() of a table iterator while rows are left: the row with its key,
\* row_finished on every column generator, index += 1
IterNextRow ==
    /\ fc.fn \in Iterators /\ fc.pc = "iter"
    /\ ~(fc.index >= fc.row_count)
    /\ fc' = [fc EXCEPT
                !.keys = Append(@, RowKey(fc.fn, fc.start_index, fc.index)),
                !.finished = [c \in ColumnGenerators(fc.fn) |-> @[c] + 1],
                !.index = @ + 1]
    /\ UNCHANGED notCall

\* next() of a table iterator whose rows are used up: None
IterNextNone ==
    /\ fc.fn \in Iterators /\ fc.pc = "iter"
    /\ fc.index >= fc.row_count
    /\ fc.nones < MaxNoneCalls
    /\ fc' = [fc EXCEPT !.nones = @ + 1]
    /\ UNCHANGED notCall

\* one pass of the for loop of DistributionParser::parse over the next line
\* of the reader
ParserReadLine ==
    /\ fc.fn = "DistributionParser::parse" /\ fc.pc = "lines"
    /\ \E trimmed \in DistLines :
          IF fc.current_dist = <<>>
             /\ (starts_with(trimmed, <<"#">>) \/ trimmed = <<>>)
          THEN fc' = fc
          ELSE IF starts_with(trimmed, <<"BEGIN", " ">>)
          THEN \E name \in {trimmed[3]} :
                  IF name \in DOMAIN fc.distributions
                  THEN fc' = [fc EXCEPT !.pc = "done",
                                !.result = <<"Err", "DuplicateDistribution">>]
                  ELSE fc' = [fc EXCEPT
                                !.current_dist =
                                    <<[name |-> name, count |-> 0,
                                       entries |-> <<>>,
                                       dist_type |-> "Regular"]>>,
                                !.current_lines = <<>>]
          ELSE IF starts_with(trimmed, <<"END", " ">>)
          THEN IF fc.current_dist # <<>>
               THEN \E r \in {validate_and_store_distribution(
                                  fc.distributions, fc.current_dist[1],
                                  fc.current_lines)} :
                       IF r.err # ""
                       THEN fc' = [fc EXCEPT !.pc = "done",
                                     !.current_dist = <<>>,
                                     !.result = <<"Err", r.err>>]
                       ELSE fc' = [fc EXCEPT
                                     !.current_dist = <<>>,
                                     !.distributions = r.distributions,
                                     !.current_lines = <<>>]
               ELSE fc' = [fc EXCEPT !.current_lines = <<>>]
          ELSE IF trimmed # <<>>
          THEN /\ Len(fc.current_lines) < MaxBlockLines
               /\ fc' = [fc EXCEPT
                           !.current_lines = Append(@, trimmed)]
          ELSE fc' = fc
    /\ UNCHANGED notCall

\* the reader has no more lines: parse returns Ok(())
ParserEndOfInput ==
    /\ fc.fn = "DistributionParser::parse" /\ fc.pc = "lines"
    /\ fc' = [fc EXCEPT !.pc = "done", !.result = <<"Ok", "">>]
    /\ UNCHANGED notCall

\* parse is called again on the same parser with another reader
ParserParseAgain ==
    /\ fc.fn = "DistributionParser::parse" /\ fc.pc = "done"
    /\ fc' = [fc EXCEPT !.pc = "lines", !.current_dist = <<>>,
                !.current_lines = <<>>, !.result = <<>>]
    /\ UNCHANGED notCall

\* one pass of the while loop of a pool builder: generate_sentence leaves the
\* text k bytes longer.  The Vec of text.rs grows; the buffer of textgen.rs
\* keeps its length and only the builder's length moves
PoolSentence ==
    /\ fc.fn \in PoolBuilders /\ fc.pc = "loop"
    /\ fc.length < fc.size
    /\ \E k \in 1..MaxSentenceLength :
          fc' = [fc EXCEPT
                   !.length = @ + k,
                   !.bytes = IF fc.fn = "TextPool::new" THEN @ + k ELSE @,
                   !.sentences = @ + 1]
    /\ UNCHANGED notCall

\* the loop is over: the text is trimmed to size and the pool is built.
\* text.rs truncates the Vec and keeps it; textgen.rs lowers the builder's
\* length and keeps get_bytes(), a clone of the whole buffer
PoolBuilt ==
    /\ fc.fn \in PoolBuilders /\ fc.pc = "loop"
    /\ ~(fc.length < fc.size)
    /\ fc' = [fc EXCEPT
                !.length = fc.size,
                !.bytes = IF fc.fn = "TextPool::new" THEN fc.size ELSE @,
                !.text = IF fc.fn = "TextPool::new" THEN fc.size ELSE fc.bytes,
                !.text_pool_size = fc.size,
                !.pc = "done"]
    /\ UNCHANGED notCall

\* the retail price of PartGeneratorIterator::make_part
CallMakePart ==
    /\ fc.fn = "make_part" /\ fc.pc = "call"
    /\ fc' = [fc EXCEPT
                !.price = PartPriceCents(fc.part_key),
                !.p_retailprice = F64Div100(PartPriceCents(fc.part_key)),
                !.pc = "done"]
    /\ UNCHANGED notCall

CallNext ==
    \/ DateIndexNext \/ JulianPass \/ DateIndexPush \/ DateIndexReturn
    \/ SequenceCall \/ SequenceSwap \/ SequenceJoin
    \/ EncodePeek \/ EncodeBatch \/ EncodeLastGroup
    \/ IterNextRow \/ IterNextNone
    \/ ParserReadLine \/ ParserEndOfInput \/ ParserParseAgain
    \/ PoolSentence \/ PoolBuilt
    \/ CallMakePart
    \/ CallMakeOrderKey \/ MortalityPass \/ MortalityExit
    \/ CallSelectPartSupplier
    \/ CallMakeSupplier \/ CallGenerateSupplier

SpecCallInit ==
    CallInit /\ RngIdle /\ LongIdle /\ GenIdle /\ PqIdle /\ PoolIdle /\ ValIdle

SpecCall == SpecCallInit /\ [][CallNext]_vars

\* C14: the key of dense index x is ((x >> 3) << 5) + (x & 7), its value
\* modulo 32 is in 0..7, and the next index gets a larger key.
C14_OrderKey ==
    (fc.fn = "make_order_key" /\ fc.pc = "done") =>
        /\ fc.key = 32 * (fc.order_index \div 8) + (fc.order_index % 8)
        /\ fc.key % 32 \in 0..7
        /\ fc.key < fc.next_key

C14_Witness ==
    /\ fc.fn = "make_order_key" /\ fc.pc = "done"
    /\ fc.order_index = 15 /\ fc.key = 39 /\ fc.next_key = 64

\* C15: the mortality loop ends (it never makes a third pass) and leaves a
\* customer key in [1, max_customer_key] that is no multiple of 3.
C15_Mortality ==
    fc.fn = "mortality" =>
        /\ fc.passes <= 2
        /\ fc.customer_key \in 1..fc.max_customer_key
        /\ fc.pc = "done" => fc.customer_key % 3 # 0

C15_Witness ==
    /\ fc.fn = "mortality" /\ fc.pc = "done"
    /\ fc.drawn = fc.max_customer_key /\ fc.drawn = 12
    /\ fc.passes = 2 /\ fc.customer_key = 11

\* C16 as stated: for every supplier count >= 4 the four supplier keys of a
\* part are in [1, S] and pairwise distinct.
C16_SupplierKeys ==
    (fc.fn = "select_part_supplier" /\ fc.pc = "done") =>
        /\ \A i \in 1..4 : fc.keys[i] \in 1..fc.supplier_count
        /\ \A i, j \in 1..4 : i # j => fc.keys[i] # fc.keys[j]

\* C16 amended: the four keys are in [1, S] for every supplier count >= 4,
\* and pairwise distinct when the supplier count is at least 241.
C16_SupplierKeysAmended ==
    (fc.fn = "select_part_supplier" /\ fc.pc = "done") =>
        /\ \A i \in 1..4 : fc.keys[i] \in 1..fc.supplier_count
        /\ fc.supplier_count >= 241 =>
              \A i, j \in 1..4 : i # j => fc.keys[i] # fc.keys[j]

C16_Witness ==
    /\ fc.fn = "select_part_supplier" /\ fc.pc = "done"
    /\ fc.supplier_count = 241 /\ fc.part_key = 4839
    /\ fc.keys = <<20, 100, 180, 19>>

----------------------------------------------------------------------------
(* The dates of LINEITEM and the flags computed from them (dates.rs).      *)

\* TPCHDate::is_in_past
is_in_past(date) == julian(date) <= CURRENT_DATE

\* the LINEITEM rows a run has generated
LineItemsOf(x) ==
    IF gen[x].table = "lineitem" THEN gen[x].out ELSE <<>>

\* C17: the ship date and the commit date of every LINEITEM row lie in
\* [MIN_GENERATE_DATE, MIN_GENERATE_DATE + TOTAL_DATE_RANGE), and the receipt
\* date is at least one day after the ship date.
C17_DatesInRange ==
    \A x \in Runs : \A k \in 1..Len(LineItemsOf(x)) :
        \E d \in {LineItemsOf(x)[k].dates} :
            /\ d[1] >= MIN_GENERATE_DATE
            /\ d[1] < MIN_GENERATE_DATE + TOTAL_DATE_RANGE
            /\ d[2] >= MIN_GENERATE_DATE
            /\ d[2] < MIN_GENERATE_DATE + TOTAL_DATE_RANGE
            /\ d[3] >= d[1] + 1

\* C18: l_returnflag is "N" exactly when the receipt date is after
\* CURRENT_DATE, else "R" or "A"; l_linestatus is "O" exactly when the ship
\* date is after CURRENT_DATE, else "F"; the dates are compared as is_in_past
\* compares them.
C18_Flags ==
    \A x \in Runs : \A k \in 1..Len(LineItemsOf(x)) :
        \E row \in {LineItemsOf(x)[k]} :
            /\ row.l_returnflag \in {"N", "R", "A"}
            /\ row.l_returnflag = "N" <=> ~is_in_past(row.dates[3])
            /\ row.l_linestatus \in {"O", "F"}
            /\ row.l_linestatus = "O" <=> ~is_in_past(row.dates[1])

\* the line statuses of the LINEITEM rows of an order key
LineStatuses(order_key) ==
    { gen["b"].out[k].l_linestatus
      : k \in { i \in 1..Len(gen["b"].out) : gen["b"].out[i].l_orderkey = order_key } }

\* C19: once both generators have returned the same part, every order has
\* o_orderstatus "F" if all its lines have l_linestatus "F", "O" if all have
\* "O", and "P" otherwise.
C19_OrderStatus ==
    ( /\ gcfg.scenario = "join"
      /\ gen["a"].pc = "returned" /\ gen["b"].pc = "returned" )
        => \A k \in 1..Len(gen["a"].out) :
             \E o \in {gen["a"].out[k]} :
             \E st \in {LineStatuses(o.o_orderkey)} :
                o.o_orderstatus = (IF st = {"F"} THEN "F"
                                   ELSE IF st = {"O"} THEN "O" ELSE "P")

\* the comment the BBB overwrite is to give: "Customer " at the offset used,
\* the type text noise characters after it, the original elsewhere
BBBExpected(comment, noise, at, type) ==
    [ i \in 1..Len(comment) |->
        IF i - at \in 1..9 THEN BBB_BASE_TEXT[i - at]
        ELSE IF i - (at + 9 + noise) \in 1..10
             THEN BBBTypeText(type)[i - (at + 9 + noise)]
        ELSE comment[i] ]

\* the overwrite is as stated
BBBOverwritten ==
    /\ fc.noise \in 0..(Len(fc.comment) - 19)
    /\ fc.at \in 0..(Len(fc.comment) - 19 - fc.noise)
    /\ fc.result = BBBExpected(fc.comment, fc.noise, fc.at, fc.type)

\* C20: the BBB branch of either supplier generator overwrites only: noise is
\* in [0, len - 19], the offset in [0, len - 19 - noise], the result has the
\* length of the comment, "Customer " at the offset, the type text noise
\* characters after it, and the original characters everywhere else.
C20_BBBOverwrite ==
    (fc.fn \in {"make_supplier", "SupplierGenerator::generate"} /\ fc.pc = "done")
        => BBBOverwritten

\* the same for make_supplier of generators.rs alone
C20_MakeSupplierOverwrite ==
    (fc.fn = "make_supplier" /\ fc.pc = "done") => BBBOverwritten

----------------------------------------------------------------------------
(* The retail price of a part as the f64 it is stored as.                  *)

\* v * 100.0 for an f64 v as F64Div100 gives it: the exact product is
\* cents + err / 2^scale, and the result is the f64 nearest to it (ties to
\* even), given as the number of f64 steps (ulps) it lies above cents
F64Times100Ulps(v) ==
    LET kx == Log2(v.cents)
        \* half the distance from cents to the next f64 above, in units of
        \* 2^-scale
        half == 2^(kx - 53 + v.scale)
        \* the same towards the next f64 below
        half_below == IF v.cents = 2^kx THEN half \div 2 ELSE half
    IN  IF v.err >= 0
        THEN (IF v.err <= half THEN 0 ELSE 1)
        ELSE (IF 0 - v.err <= half_below THEN 0 ELSE 0 - 1)

\* C21: calculate_part_price(pk) is 90000 + ((pk / 10) mod 20001)
\* + (pk mod 1000) * 100 cents, which is 90100, 91001, 100010 and 90100 for
\* pk = 1, 10, 100 and 1000, and p_retailprice * 100 equals that value.
C21_PartPrice ==
    (fc.fn = "make_part" /\ fc.pc = "done") =>
        /\ fc.price = 90000 + ((fc.part_key \div 10) % 20001)
                        + (fc.part_key % 1000) * 100
        /\ fc.part_key = 1 => fc.price = 90100
        /\ fc.part_key = 10 => fc.price = 91001
        /\ fc.part_key = 100 => fc.price = 100010
        /\ fc.part_key = 1000 => fc.price = 90100
        /\ F64Times100Ulps(fc.p_retailprice) = 0

\* the part of C21 about the integer price alone
C21_PartPriceCents ==
    (fc.fn = "make_part" /\ fc.pc = "done") =>
        /\ fc.price = 90000 + ((fc.part_key \div 10) % 20001)
                        + (fc.part_key % 1000) * 100
        /\ fc.part_key \in {1, 1000} => fc.price = 90100
        /\ fc.part_key = 10 => fc.price = 91001
        /\ fc.part_key = 100 => fc.price = 100010

\* C22: building a text pool of size n ends (after at most n sentences) with
\* a stored text of exactly n bytes, and size() is n.
C22_PoolSize ==
    fc.fn \in PoolBuilders =>
        /\ fc.sentences <= fc.size
        /\ fc.length <= fc.size + MaxSentenceLength
        /\ fc.pc = "done" => (fc.text = fc.size /\ fc.text_pool_size = fc.size)

\* the same for TextPool::new of text.rs alone
C22_TextPoolNew ==
    fc.fn = "TextPool::new" =>
        /\ fc.sentences <= fc.size
        /\ fc.pc = "done" => (fc.text = fc.size /\ fc.text_pool_size = fc.size)

\* ---- distribution.rs: the distribution file grammar ----
ParserStep ==
    /\ fc.fn = "DistributionParser::parse" /\ fc.pc = "lines"
    /\ fc'.fn = "DistributionParser::parse"

\* the step reads an END line while a distribution is open: "END <name>",
\* which takes current_dist, or the bare "END" of the grammar END [<name>]
ReadsNamedEnd ==
    ParserStep /\ fc.current_dist # <<>> /\ fc'.current_dist = <<>>
ReadsBareEnd ==
    /\ ParserStep /\ fc.current_dist # <<>>
    /\ fc'.current_lines = Append(fc.current_lines, <<"END">>)

\* the step reads a BEGIN line that opens a distribution
OpensDistribution ==
    /\ ParserStep /\ fc'.pc = "lines" /\ fc'.current_dist # <<>>
    /\ fc'.current_dist # fc.current_dist \/ fc'.current_lines # fc.current_lines
    /\ fc'.current_lines = <<>>

IsEntry(line) ==
    /\ Len(line) = 3 /\ line[2] = "|"
    /\ line[1] \notin {"COUNT", "count", "#"}
NonIntegerWeight(line) ==
    IsEntry(line) /\ \A t \in IntegerTexts : t[1] # line[3]
IsCountLine(line) ==
    Len(line) = 3 /\ line[1] \in {"COUNT", "count"} /\ line[2] = "|"
TextValue(text) == (CHOOSE t \in IntegerTexts : t[1] = text)[2]

\* C23: parse returns Err(InvalidWeight) when the block that an END line
\* closes has an entry whose weight is not an integer, and it never opens a
\* distribution whose name is already stored (that BEGIN returns
\* Err(DuplicateDistribution)); a parse that returns an error leaves the
\* stored distributions as they were
C23_BadInput ==
    [][ParserStep =>
          /\ ((ReadsNamedEnd \/ ReadsBareEnd)
                /\ \E i \in 1..Len(fc.current_lines) :
                      NonIntegerWeight(fc.current_lines[i]))
             => fc'.result = <<"Err", "InvalidWeight">>
          /\ OpensDistribution
             => fc'.current_dist[1].name \notin DOMAIN fc.distributions
          /\ (fc'.pc = "done" /\ fc'.result[1] = "Err")
             => fc'.distributions = fc.distributions]_vars

\* the same for blocks closed by "END <name>", the only END line that parse
\* takes as one
C23_NamedEnd ==
    [][ParserStep =>
          /\ (ReadsNamedEnd
                /\ \E i \in 1..Len(fc.current_lines) :
                      NonIntegerWeight(fc.current_lines[i]))
             => fc'.result = <<"Err", "InvalidWeight">>
          /\ OpensDistribution
             => fc'.current_dist[1].name \notin DOMAIN fc.distributions
          /\ (fc'.pc = "done" /\ fc'.result[1] = "Err")
             => fc'.distributions = fc.distributions]_vars

\* the lines since BEGIN are a count line for n entries and then n entries
\* with integer weights
CountedBlock(lines) ==
    /\ Len(lines) >= 2 /\ IsCountLine(lines[1])
    /\ \E t \in IntegerTexts : t[1] = lines[1][3] /\ t[2] = Len(lines) - 1
    /\ \A i \in 2..Len(lines) :
          IsEntry(lines[i]) /\ ~NonIntegerWeight(lines[i])
EntriesOf(lines) ==
    [i \in 1..(Len(lines) - 1) |->
        [value |-> <<lines[i + 1][1]>>, weight |-> TextValue(lines[i + 1][3])]]

\* C24: when an END line, with or without a name, follows BEGIN d, a count
\* line for n and n entries, d is stored with exactly these n entries in the
\* order of the file
C24_Grammar ==
    [][((ReadsNamedEnd \/ ReadsBareEnd) /\ CountedBlock(fc.current_lines)) =>
          /\ fc'.pc = "lines"
          /\ fc.current_dist[1].name \in DOMAIN fc'.distributions
          /\ fc'.distributions[fc.current_dist[1].name].entries
                = EntriesOf(fc.current_lines)]_vars

\* the same for the blocks that parse does store: the count line is written
\* COUNT|n and the END line carries a name
C24_UpperCaseNamedEnd ==
    [][(ReadsNamedEnd /\ CountedBlock(fc.current_lines)
          /\ fc.current_lines[1][1] = "COUNT") =>
          /\ fc'.pc = "lines"
          /\ fc.current_dist[1].name \in DOMAIN fc'.distributions
          /\ fc'.distributions[fc.current_dist[1].name].count
                = Len(fc.current_lines) - 1
          /\ fc'.distributions[fc.current_dist[1].name].entries
                = EntriesOf(fc.current_lines)]_vars

\* ---- generators.rs: table iterators ----
\* C25: a table iterator yields row_count rows and from then on None; the
\* i-th row (0-based) has key start_index + i + 1, or key i for NATION and
\* REGION with their 25 and 5 rows, so the keys increase strictly; and when
\* next() returns, every column generator has had row_finished once per row
C25_Iterator ==
    /\ [](fc.fn \in Iterators =>
            /\ Len(fc.keys) <= fc.row_count
            /\ fc.nones > 0 => Len(fc.keys) = fc.row_count
            /\ \A i \in 1..Len(fc.keys) :
                  fc.keys[i] = IF fc.fn \in FixedIterators THEN i - 1
                               ELSE fc.start_index + (i - 1) + 1
            /\ \A i \in 2..Len(fc.keys) : fc.keys[i - 1] < fc.keys[i]
            /\ \A c \in ColumnGenerators(fc.fn) : fc.finished[c] = Len(fc.keys)
            /\ fc.fn = "NationGeneratorIterator" => fc.row_count = 25
            /\ fc.fn = "RegionGeneratorIterator" => fc.row_count = 5)
    /\ [][(fc.fn \in Iterators /\ fc.nones > 0) => fc'.keys = fc.keys]_vars

\* the second part of three has given its rows and then None twice
C25_Witness ==
    /\ fc.fn = "PartGeneratorIterator"
    /\ fc.start_index = 1 /\ fc.row_count = 1
    /\ fc.keys = <<2>> /\ fc.nones = MaxNoneCalls

\* ---- parquet.rs: row groups ----
RECURSIVE Flatten(_)
Flatten(groups) ==
    IF groups = <<>> THEN <<>> ELSE Head(groups) \o Flatten(Tail(groups))

RECURSIVE RowsOf(_, _)
RowsOf(batches, group) ==
    IF group = <<>> THEN 0
    ELSE batches[Head(group)] + RowsOf(batches, Tail(group))

C27_StringSequence ==
    (fc.fn = "RandomStringSequence::next_value"
       /\ fc.count < Len(fc.distribution)) =>
        LET n == Len(fc.distribution)
            k == fc.count
        IN  /\ fc.distribution = SubSeq(DistributionValues, 1, n)
            /\ fc.pc # "panicked"
            /\ Len(fc.draws) <= k
            /\ fc.pc = "loop" => fc.values[1] \in {fc.distribution[i] : i \in 1..n}
            /\ \A i \in 1..Len(fc.draws) :
                  /\ fc.draws[i][1] = i - 1 /\ fc.draws[i][2] = n - 1
                  /\ fc.draws[i][3] \in (i - 1)..(n - 1)
            /\ fc.pc = "done" =>
                  /\ Len(fc.draws) = k
                  /\ Len(fc.result) = 2 * k - 1
                  /\ \A i \in 1..Len(fc.result) :
                        IF i % 2 = 0 THEN fc.result[i] = " "
                        ELSE \E j \in 1..n : fc.result[i] = fc.distribution[j]
                  /\ \A i, j \in 1..Len(fc.result) :
                        (i % 2 = 1 /\ j % 2 = 1 /\ i # j)
                           => fc.result[i] # fc.result[j]

\* three of four values have been drawn, each draw taking the last position
C27_Witness ==
    /\ fc.fn = "RandomStringSequence::next_value" /\ fc.pc = "done"
    /\ fc.count = 3 /\ Len(fc.distribution) = 4
    /\ fc.draws = << <<0, 3, 3>>, <<1, 3, 3>>, <<2, 3, 3>> >>
    /\ fc.result = <<"azure", " ", "almond", " ", "antique">>

\* ---- dates.rs: the date index ----
\* the leap-year rule of the date index, on the full year
LeapYear(year) == year % 4 = 0 /\ year % 100 # 0
DaysInMonth(year, month) ==
    CASE month \in {4, 6, 9, 11} -> 30
      [] month = 2 -> IF LeapYear(year) THEN 29 ELSE 28
      [] OTHER -> 31

\* the day after a calendar day
NextDay(date) ==
    IF date[3] < DaysInMonth(date[1], date[2])
    THEN <<date[1], date[2], date[3] + 1>>
    ELSE IF date[2] < 12 THEN <<date[1], date[2] + 1, 1>>
    ELSE <<date[1] + 1, 1, 1>>

\* C28: the date index gets exactly TOTAL_DATE_RANGE = 2557 entries; the
\* first is 1992-01-01, every entry is the day after the entry before it
\* under the leap-year rule year mod 4 = 0 and year mod 100 # 0, so entry n
\* is the day n days after 1992-01-01 and the last is 1998-12-31; every
\* month and day is valid; and the julian loop makes at most one pass for
\* every year of the range, so it terminates
C28_DateIndex ==
    fc.fn = "make_date_index" =>
        /\ fc.pc # "panicked"
        /\ fc.len <= TOTAL_DATE_RANGE
        /\ fc.passes <= 6 /\ fc.passes = (fc.result - MIN_GENERATE_DATE) \div 1000
        /\ fc.offset >= 0
        /\ fc.len >= 1 =>
              /\ fc.last[2] \in 1..12
              /\ fc.last[3] \in 1..DaysInMonth(fc.last[1], fc.last[2])
        /\ fc.len = 1 => fc.last = <<1992, 1, 1>>
        /\ fc.len >= 2 => fc.last = NextDay(fc.previous)
        /\ fc.pc = "done" =>
              (fc.len = 2557 /\ fc.last = <<1998, 12, 31>>)

\* the entry of 1996-02-29 has been pushed after that of 1996-02-28
C28_Witness ==
    /\ fc.fn = "make_date_index" /\ fc.pc = "for"
    /\ fc.previous = <<1996, 2, 28>> /\ fc.last = <<1996, 2, 29>>
    /\ fc.passes = 4

\* ---- rng.rs, textgen.rs: next_long ----
\* the step is a next_long(lo, hi) call of the sequential generator that is
\* within the budget of its row
NextLongCall(lo, hi) ==
    /\ lrng["seq"].status = "ready"
    /\ lrng["seq"].usage < lexpected
    /\ lrng'["seq"] = LongNextLong(limpl, lexpected, lrng["seq"], lo, hi)

\* the seed * 6364136223846793005 + 1 modulo 2^64
NextSeed64(s) == WrappingAdd(WrappingMul(s, LONG_MULTIPLIER), ToI64(1))

\* C29: next_long(lo, hi) completes for every seed without an overflow abort,
\* leaves the seed seed * 6364136223846793005 + 1 modulo 2^64 and returns a
\* value of [lo, hi], also when that seed is -2^63
C29_NextLong ==
    [][\A r \in LongRanges :
          NextLongCall(r[1], r[2]) =>
              /\ lrng'["seq"].status = "ready"
              /\ lrng'["seq"].seed = NextSeed64(lrng["seq"].seed)
              /\ lrng'["seq"].ret \in r[1]..r[2]]_vars

\* the same for the calls that wrap (RandomLong, and TpchLongRng in a
\* release build) and whose new seed is not -2^63
C29_WrappingNextLong ==
    [][\A r \in LongRanges :
          ( /\ NextLongCall(r[1], r[2])
            /\ limpl.type = "RandomLong" \/ limpl.build = "release"
            /\ ~IsMin(NextSeed64(lrng["seq"].seed)) ) =>
              /\ lrng'["seq"].status = "ready"
              /\ lrng'["seq"].seed = NextSeed64(lrng["seq"].seed)
              /\ lrng'["seq"].ret \in r[1]..r[2]]_vars

\* a release build returns a value below lo when the new seed is -2^63
C29_MinSeedBelowRange ==
    [][\A r \in LongRanges :
          ( /\ NextLongCall(r[1], r[2])
            /\ limpl.build = "release"
            /\ IsMin(NextSeed64(lrng["seq"].seed)) ) =>
              lrng'["seq"].ret < r[1]]_vars

\* ---- rng.rs, textgen.rs: the 32-bit generator ----
\* the step is a next_int(lo, hi) call that returns
NextIntReturns(lo, hi) ==
    /\ g'.op = "next_int" /\ g'.calls = g.calls + 1
    /\ rpc' = "ready" /\ usage' = usage + 1
    /\ \E o \in NextIntOutcomes(impl, seed', lo, hi) :
          ~o.aborted /\ ret' = o.ret

\* C30: the seed, and the multiplier of advance_seed, stay in [1, 2^31 - 2]
\* through next_int, row_finished and advance_rows, so no product of the two
\* reaches 2^62; a next_int(lo, hi) that returns gives a value of [lo, hi] when
\* hi - lo + 1 fits an i32 and a value outside [lo, hi] when it does not, as
\* for next_int(0, 2^31 - 1)
C30_Seed32 ==
    /\ [](rpc # "idle" =>
            /\ seed \in 1..(MODULUS - 1)
            /\ multiplier \in 1..(MODULUS - 1))
    /\ [][\A r \in IntRanges :
            NextIntReturns(r[1], r[2]) =>
                (ret' \in r[1]..r[2] <=> ~RangeOverflows(r[1], r[2]))]_vars

\* next_int(0, 2^31 - 1) on the seed 1 has returned -16807
C30_Witness ==
    /\ impl = "TpchRng_release" /\ rpc = "ready"
    /\ g.op = "next_int" /\ seed = 16807 /\ ret = 0 - 16807

====
